---- MODULE Spec2Model ----
(***************************************************************************)
(* Model of the logseq-super-sync backup scheduler:                        *)
(*   - the isProcessing-flag change coalescer (core/events, strict         *)
(*     reset-on-edit variant),                                             *)
(*   - the single-document dispatch BackupService.backupPage and the page  *)
(*     loop of BackupService.backupAllPages,                               *)
(*   - BaseBackupProvider.diffWithRemote,                                  *)
(*   - SyncService.syncPage.                                               *)
(* JavaScript runs every handler to completion between two awaits, so one  *)
(* action is one such run-to-completion segment.                           *)
(***************************************************************************)
EXTENDS Integers, Sequences, FiniteSets, TLC

(***************************************************************************)
(* Bounds of the model.                                                    *)
(***************************************************************************)
\* change events the host delivers in one behaviour
MaxEvents == 3
\* timer handles the host event loop can hold at once
MaxTimers == 2
\* the debounce delay (settings.debounceTime * 1000 ms) in clock ticks
Delay == 2
\* how many ticks before its deadline the host may run a timer callback
\* (setTimeout and Date.now() do not share a clock)
EarlySlack == 1

VARIABLES
    \* ---- debounceData (isProcessing-flag coalescer) ----
    timer,            \* debounceData.timer: NoTimer (null) or the last handle set
    changeBuffer,     \* debounceData.changeBuffer: sequence of change events
    isProcessing,     \* debounceData.isProcessing
    sinceEdit,        \* Date.now() - debounceData.lastEditTimestamp, saturated at Delay
    \* ---- host side of the coalescer ----
    pendingTimers,    \* event loop: handle -> ticks left, NotArmed when not pending
    unloadPc,         \* position of the beforeunload handler
    nEvents,          \* change events delivered so far
    \* ---- history ----
    calls,            \* log of the invocations of backupService.processChanges
    evLog,            \* per change event: what the coalescer looked like on arrival
    step,             \* the handler that ran last
    \* ---- BackupService ----
    enabledNames,     \* getEnabledProviders(this.settings)
    providers,        \* keys of this.providers: the initialized providers
    \* ---- one call of backupPage ----
    bpPc,             \* position in backupPage
    bpBuild,          \* what createPageBackup gave
    bpStore,          \* per provider: state of its provider.backup invocation
    bpCalls,          \* per provider: invocations of provider.backup
    bpSuccessCount,   \* successCount
    bpProviderCount,  \* providerCount
    bpNotice,         \* type of the notification shown at the end
    \* ---- one call of backupAllPages ----
    frPc,             \* position in backupAllPages
    frN,              \* allPages.length
    frIdx,            \* the page being processed (1-based)
    frCursor,         \* providers still to be tried for the current page
    frOk,             \* pageBackupSuccessful
    frStored,         \* providers that stored the current page
    frCounts,         \* successCount, errorCount, skippedCount
    frLog,            \* per processed page: what it was and how it was counted
    frSummary,        \* type of the final notification
    \* ---- one call of BaseBackupProvider.diffWithRemote ----
    dfPath,           \* filePath
    dfLocal,          \* localUpdatedAt
    dfCache,          \* this._cachedBackups
    dfRemote,         \* what listFiles() finds on the remote
    dfInit,           \* this.initialized
    dfPc,             \* position in diffWithRemote
    dfMatched,        \* remoteMetadata: index in the consulted list, 0 for null
    dfResult,         \* the value returned
    \* ---- SyncService.syncPage of one page ----
    syProviders,      \* names in SyncService.providers
    syS3Settings,     \* the s3 bucket and keys are set
    syPage,           \* getPage() found the page
    syPageName,       \* pageName
    syFilePath,       \* what getPageFilePath() returns, <<>> for null
    syPc,             \* position in syncPage
    syIdx,            \* position of the loop in this.providers.entries()
    syDecision,       \* provider -> diffResult
    syActs,           \* provider -> calls made for the page, in order
    syLatest,         \* pullFromRemote: latestBackup
    \* ---- SyncService.performInitialSync ----
    psPc,             \* position in performInitialSync
    psPages,          \* what getAllPages() returns
    psProvIdx,        \* position of the listing loop in this.providers.entries()
    psIdx,            \* position of the page loop
    psLists,          \* provider -> listBackups() calls made by the listing loop
    psLog,            \* per synced page: the decisions and the calls made
    psFault,          \* a call to the host or to the remote has failed in the pass
    \* ---- updateSettings of BackupService and of SyncService ----
    settings,         \* this.settings: provider -> enabled, credentials
    usPrev,           \* the settings before the change
    usPc,             \* position of the onSettingsChanged handler
    bsPc,             \* position in BackupService.updateSettings
    bsTodo,           \* providers BackupService.updateSettings still initializes
    bsInitWith,       \* provider -> credentials its object was initialized with
    bsInits,          \* provider -> initialize() calls made by the update
    ssPc,             \* position in SyncService.updateSettings
    ssTodo,           \* providers SyncService.updateSettings still initializes
    ssInitWith,       \* provider -> credentials its object was initialized with
    ssInits,          \* provider -> initialize() calls made by the update
    \* ---- storage keys ----
    kSettings,        \* settings the providers were initialized with (path prefixes)
    kGraph,           \* name of the graph that logseq.App.getCurrentGraph() returns
    kPage,            \* page entity that logseq.Editor.getPage() returns, or NoPage
    kMetas,           \* source -> BackupMetadata handed to provider.backup, or NoMeta
    kKeys,            \* source -> provider variant -> key derived by backup, or NoKey
    \* ---- startup ----
    iKind,            \* which initialization loop runs
    iEnabled,         \* getEnabledProviders(settings) at startup
    iPc,              \* position of the loop
    iTodo,            \* enabled providers the loop has not reached
    iResult,          \* provider -> how its initialize() settled
    iSet,             \* the providers map the loop fills
    iUsed,            \* providers on which backup() was invoked afterwards
    \* ---- BackupService.processChanges ----
    pcPc,             \* position in processChanges
    pcBlocks,         \* blocks of the snapshot not scanned yet
    pcModified,       \* modifiedPages: the Set in insertion order
    pcQueue,          \* names of modifiedPages the backup loop has not reached
    pcCur,            \* pageName of the running backupPage
    pcLog,            \* dispatches: page name, its document, stores pending before
    pcBuilt,          \* backupPage calls: page name, build outcome, stores
    \* ---- assets of full runs ----
    processedAssets,  \* the module-level Set of asset paths
    asRefs,           \* asset paths the stored pages reference, in page order
    asPc,             \* run -> position of that backupAllPages call
    asIdx,            \* run -> next asset reference of its loop
    asLog,            \* backupAsset calls: run and asset path
    \* ---- tag filtering ----
    tgSettings,       \* settings.backupMode and settings.backupTags
    tgPageTags,       \* what getPageTags returns for the page
    tgOutcome,        \* backup path -> whether it dispatched the page
    \* ---- getEnabledProviders / validateProviderConfig ----
    geSettings,       \* the flat settings object
    geEnabled,        \* what getEnabledProviders(settings) returned
    geErrors,         \* provider -> what validateProviderConfig returned
    \* ---- the isChanged-flag coalescer of core/events.ts ----
    ssChangeBuffer,   \* syncState.changeBuffer: the events not yet snapshotted
    ssIsChanged,      \* syncState.isChanged
    ssDebounceTimer,  \* syncState.debounceTimer: "null", "armed", or "fired"
    ssAwaiting,       \* the processChanges calls awaiting the backup service
    ssEvents,         \* number of change events so far
    ssStarted,        \* number of processChanges calls started so far
    ssUnloaded,       \* TRUE once the beforeunload handler ran
    \* ---- overlapping updateSettings calls ----
    ovEnabled,        \* getEnabledProviders of the settings applied last
    ovBackup,         \* keys of BackupService.providers
    ovSync,           \* keys of SyncService.providers
    ovBackupCalls,    \* BackupService.updateSettings calls awaiting an initialize
    ovSyncCalls,      \* SyncService.updateSettings calls awaiting an initialize
    ovChanges,        \* settings changes so far
    \* ---- one provider and its remote ----
    rmVariant,        \* the provider class
    rmSettings,       \* the path prefixes of the settings
    rmObjects,        \* the objects on the remote, in the order of its listing
    rmStores,         \* log of the provider.backup calls
    rmListed,         \* what the last listBackups() returned
    rmRestored,       \* what the last restoreBackup(timestamp) found
    rmPulled,         \* what the last pullFromRemote matched and wrote
    fxPass,           \* sync passes started
    fxPc,             \* position in performInitialSync
    fxPages,          \* getAllPages()
    fxIdx,            \* next page of the loop
    fxCache,          \* provider._cachedBackups
    fxLocal,          \* updatedAt of every page, in ms
    fxLog             \* what each syncPage decided and did

coalVars == <<timer, changeBuffer, isProcessing, sinceEdit, pendingTimers,
              unloadPc, nEvents, calls, evLog, step>>

svcVars == <<enabledNames, providers>>

bpVars == <<bpPc, bpBuild, bpStore, bpCalls, bpSuccessCount, bpProviderCount,
            bpNotice>>

frVars == <<frPc, frN, frIdx, frCursor, frOk, frStored, frCounts, frLog,
            frSummary>>

dispVars == <<svcVars, bpVars, frVars>>

diffVars == <<dfPath, dfLocal, dfCache, dfRemote, dfInit, dfPc, dfMatched,
              dfResult>>

syncVars == <<syProviders, syS3Settings, syPage, syPageName, syFilePath, syPc,
              syIdx, syDecision, syActs, syLatest>>

passVars == <<psPc, psPages, psProvIdx, psIdx, psLists, psLog, psFault>>

setVars == <<settings, usPrev, usPc, bsPc, bsTodo, bsInitWith, bsInits, ssPc,
             ssTodo, ssInitWith, ssInits>>

keyVars == <<kSettings, kGraph, kPage, kMetas, kKeys>>

startVars == <<iKind, iEnabled, iPc, iTodo, iResult, iSet, iUsed>>

changesVars == <<pcPc, pcBlocks, pcModified, pcQueue, pcCur, pcLog, pcBuilt>>

assetVars == <<processedAssets, asRefs, asPc, asIdx, asLog>>

tagVars == <<tgSettings, tgPageTags, tgOutcome>>

enabledVars == <<geSettings, geEnabled, geErrors>>

flagVars == <<ssChangeBuffer, ssIsChanged, ssDebounceTimer, ssAwaiting, ssEvents, ssStarted, ssUnloaded>>

overlapVars == <<ovEnabled, ovBackup, ovSync, ovBackupCalls, ovSyncCalls, ovChanges>>

remoteVars == <<rmVariant, rmSettings, rmObjects, rmStores, rmListed, rmRestored, rmPulled>>

fixVars == <<fxPass, fxPc, fxPages, fxIdx, fxCache, fxLocal, fxLog>>

vars == <<coalVars, dispVars, diffVars, syncVars, passVars, setVars, keyVars,
         startVars,
         changesVars,
         assetVars,
         tagVars,
         enabledVars,
         flagVars,
         overlapVars,
         remoteVars,
         fixVars>>

\* what the steps of one component leave alone
exceptCoal == <<dispVars, diffVars, syncVars, passVars, setVars, keyVars,
    startVars,
    changesVars,
    assetVars,
    tagVars,
    enabledVars,
    flagVars,
    overlapVars,
    remoteVars,
    fixVars>>
exceptDisp == <<coalVars, diffVars, syncVars, passVars, setVars, keyVars,
    startVars,
    changesVars,
    assetVars,
    tagVars,
    enabledVars,
    flagVars,
    overlapVars,
    remoteVars,
    fixVars>>
exceptSync == <<coalVars, dispVars, passVars, setVars, keyVars,
    startVars,
    changesVars,
    assetVars,
    tagVars,
    enabledVars,
    flagVars,
    overlapVars,
    remoteVars,
    fixVars>>
exceptPass == <<coalVars, dispVars, setVars, keyVars,
    startVars,
    changesVars,
    assetVars,
    tagVars,
    enabledVars,
    flagVars,
    overlapVars,
    remoteVars,
    fixVars>>
exceptSet == <<coalVars, bpVars, frVars, passVars, keyVars,
    startVars,
    changesVars,
    assetVars,
    tagVars,
    enabledVars,
    flagVars,
    overlapVars,
    remoteVars,
    fixVars>>
exceptKey == <<coalVars, dispVars, diffVars, syncVars, passVars, setVars,
    startVars,
    changesVars,
    assetVars,
    tagVars,
    enabledVars,
    flagVars,
    overlapVars,
    remoteVars,
    fixVars>>

(***************************************************************************)
(* Helpers.                                                                *)
(***************************************************************************)
Min(a, b) == IF a < b THEN a ELSE b

Range(s) == {s[i] : i \in DOMAIN s}

NoTimer == 0
NotArmed == -1
Handles == 1..MaxTimers

Pending(pt) == {h \in Handles : pt[h] # NotArmed}

InFlight == {i \in DOMAIN calls : ~calls[i].done}

(***************************************************************************)
(* Host timers.                                                            *)
(***************************************************************************)
\* clearTimeout(handle): cancels the timer if it is still pending
clearTimeout(pt, h) ==
    IF h # NoTimer THEN [pt EXCEPT ![h] = NotArmed] ELSE pt

\* setTimeout(cb, debounceDelay): the handle the host returns
setTimeout(pt) == CHOOSE h \in Handles : pt[h] = NotArmed /\
                      \A g \in Handles : pt[g] = NotArmed => h <= g

CanArm(pt) == \E h \in Handles : clearTimeout(pt, timer)[h] = NotArmed

(***************************************************************************)
(* resetDebounceTimer: clear the existing timer, then arm a new one for    *)
(* the full delay.  pt is the host's timer table at the time of the call.  *)
(***************************************************************************)
\* faulty variant: a new timer is armed without cancelling the armed one
resetDebounceTimerNoClear(pt) ==
    LET h == setTimeout(pt)
    IN  /\ timer' = h
        /\ pendingTimers' = [pt EXCEPT ![h] = Delay]

resetDebounceTimer(pt) ==
    LET cleared == clearTimeout(pt, timer)
        h == setTimeout(cleared)
    IN  /\ timer' = h
        /\ pendingTimers' = [cleared EXCEPT ![h] = Delay]

(***************************************************************************)
(* An event pushed on debounceData.changeBuffer is also seen by an         *)
(* invocation that was handed that very array (the shutdown flush).        *)
(***************************************************************************)
PushAliased(cs, e) ==
    [i \in DOMAIN cs |->
        IF cs[i].aliased /\ ~cs[i].done
        THEN [cs[i] EXCEPT !.args = Append(@, e)] ELSE cs[i]]

\* debounceData.changeBuffer = []: the old array is no longer the buffer
Unalias(cs) == [i \in DOMAIN cs |-> [cs[i] EXCEPT !.aliased = FALSE]]

NewCall(by, aliased) ==
    [by |-> by, args |-> changeBuffer, idle |-> sinceEdit,
     done |-> FALSE, threw |-> FALSE, aliased |-> aliased]

(***************************************************************************)
(* logseq.DB.onChanged handler.                                            *)
(***************************************************************************)
OnChanged ==
    /\ nEvents < MaxEvents
    /\ CanArm(pendingTimers)
    /\ LET e == nEvents + 1 IN
        /\ nEvents' = e
        /\ changeBuffer' = Append(changeBuffer, e)
        /\ calls' = PushAliased(calls, e)
        /\ evLog' = Append(evLog, [gap |-> sinceEdit,
                                   duringPass |-> isProcessing,
                                   callsBefore |-> Len(calls),
                                   unload |-> unloadPc])
    /\ sinceEdit' = 0
    /\ resetDebounceTimer(pendingTimers)
    /\ step' = "onChanged"
    /\ UNCHANGED <<isProcessing, unloadPc>>

(***************************************************************************)
(* processChangesIfNeeded up to its await.                                 *)
(***************************************************************************)
processChangesIfNeeded(pt) ==
    IF Len(changeBuffer) = 0 \/ isProcessing
    THEN /\ pendingTimers' = pt
         /\ UNCHANGED <<timer, changeBuffer, isProcessing, calls>>
    ELSE /\ isProcessing' = TRUE
         /\ calls' = Append(Unalias(calls), NewCall("pass", FALSE))
         /\ changeBuffer' = <<>>
         /\ pendingTimers' = pt
         /\ UNCHANGED timer

(***************************************************************************)
(* The setTimeout callback of resetDebounceTimer.                          *)
(***************************************************************************)
\* faulty variant: the callback without the inactivity re-check
TimerCallbackNoCheck(pt) == processChangesIfNeeded(pt)

TimerCallback(pt) ==
    IF sinceEdit < Delay
    THEN /\ resetDebounceTimer(pt)
         /\ UNCHANGED <<changeBuffer, isProcessing, calls>>
    ELSE processChangesIfNeeded(pt)

TimerFire(h) ==
    /\ pendingTimers[h] # NotArmed
    /\ pendingTimers[h] <= EarlySlack
    /\ TimerCallback([pendingTimers EXCEPT ![h] = NotArmed])
    /\ step' = "timer"
    /\ UNCHANGED <<sinceEdit, unloadPc, nEvents, evLog>>

(***************************************************************************)
(* processChangesIfNeeded after its await: catch and finally.              *)
(***************************************************************************)
\* faulty variant: a finally block that only clears the flag
PassFinallyNoRearm ==
    /\ isProcessing' = FALSE
    /\ UNCHANGED <<timer, pendingTimers>>

PassFinally ==
    /\ isProcessing' = FALSE
    /\ IF Len(changeBuffer) > 0
       THEN resetDebounceTimer(pendingTimers)
       ELSE UNCHANGED <<timer, pendingTimers>>

\* faulty variant: an exception of the callback skips the finally block
PassCompleteNoFinally(i, ok) ==
    /\ i \in InFlight
    /\ calls[i].by = "pass"
    /\ calls' = [calls EXCEPT ![i].done = TRUE, ![i].threw = ~ok]
    /\ IF ok THEN PassFinally ELSE UNCHANGED <<isProcessing, timer, pendingTimers>>
    /\ step' = "passDone"
    /\ UNCHANGED <<changeBuffer, sinceEdit, unloadPc, nEvents, evLog>>

PassComplete(i, ok) ==
    /\ i \in InFlight
    /\ calls[i].by = "pass"
    /\ calls' = [calls EXCEPT ![i].done = TRUE, ![i].threw = ~ok]
    /\ PassFinally
    /\ step' = "passDone"
    /\ UNCHANGED <<changeBuffer, sinceEdit, unloadPc, nEvents, evLog>>

(***************************************************************************)
(* logseq.beforeunload handler, up to its await.                           *)
(***************************************************************************)
\* faulty variant: the flush is started but not awaited
UnloadNoAwait ==
    /\ unloadPc = "idle"
    /\ timer' = NoTimer
    /\ pendingTimers' = clearTimeout(pendingTimers, timer)
    /\ calls' = IF Len(changeBuffer) > 0 /\ ~isProcessing
                THEN Append(calls, NewCall("flush", TRUE)) ELSE calls
    /\ unloadPc' = "done"
    /\ step' = "unload"
    /\ UNCHANGED <<changeBuffer, isProcessing, sinceEdit, nEvents, evLog>>

Unload ==
    /\ unloadPc = "idle"
    /\ timer' = NoTimer
    /\ pendingTimers' = clearTimeout(pendingTimers, timer)
    /\ IF Len(changeBuffer) > 0 /\ ~isProcessing
       THEN /\ calls' = Append(calls, NewCall("flush", TRUE))
            /\ unloadPc' = "flushing"
       ELSE /\ calls' = calls
            /\ unloadPc' = "done"
    /\ step' = "unload"
    /\ UNCHANGED <<changeBuffer, isProcessing, sinceEdit, nEvents, evLog>>

\* the awaited processChanges(...).catch(...) settles and the handler returns
FlushComplete(i, ok) ==
    /\ unloadPc = "flushing"
    /\ i \in InFlight
    /\ calls[i].by = "flush"
    /\ calls' = [calls EXCEPT ![i].done = TRUE, ![i].threw = ~ok]
    /\ unloadPc' = "done"
    /\ step' = "flushDone"
    /\ UNCHANGED <<timer, changeBuffer, isProcessing, sinceEdit, pendingTimers,
                   nEvents, evLog>>

(***************************************************************************)
(* Passage of time.                                                        *)
(***************************************************************************)
Tick ==
    /\ sinceEdit < Delay \/ \E h \in Handles : pendingTimers[h] > 0
    /\ sinceEdit' = Min(sinceEdit + 1, Delay)
    /\ pendingTimers' = [h \in Handles |->
            IF pendingTimers[h] > 0 THEN pendingTimers[h] - 1 ELSE pendingTimers[h]]
    /\ step' = "tick"
    /\ UNCHANGED <<timer, changeBuffer, isProcessing, unloadPc, nEvents, calls, evLog>>

(***************************************************************************)
(* BackupService: the provider set.                                        *)
(***************************************************************************)
ProviderNames == {"s3", "webdav", "local"}

\* insertion order of this.providers: the order of getEnabledProviders
ProviderOrder == <<"s3", "webdav", "local">>

\* Object.entries(this.providers) / Object.keys(this.providers)
ProviderEntries == SelectSeq(ProviderOrder, LAMBDA p : p \in providers)

Settled == {"true", "false", "threw"}

\* the service after initialize(): E is what the settings enable, P the
\* providers whose initialize() returned true
InitService(E, P) ==
    /\ enabledNames = E
    /\ providers = P
    /\ bpPc = "idle"
    /\ bpBuild = "none"
    /\ bpStore = [p \in ProviderNames |-> "none"]
    /\ bpCalls = [p \in ProviderNames |-> 0]
    /\ bpSuccessCount = 0
    /\ bpProviderCount = 0
    /\ bpNotice = "none"
    /\ frPc = "idle"
    /\ frN = 0
    /\ frIdx = 0
    /\ frCursor = <<>>
    /\ frOk = FALSE
    /\ frStored = 0
    /\ frCounts = [success |-> 0, error |-> 0, skipped |-> 0]
    /\ frLog = <<>>
    /\ frSummary = "none"

(***************************************************************************)
(* backupPage.                                                             *)
(***************************************************************************)
BackupPageCall ==
    /\ bpPc = "idle"
    /\ bpPc' = "awaitBuild"
    /\ UNCHANGED <<bpBuild, bpStore, bpCalls, bpSuccessCount, bpProviderCount,
                   bpNotice>>

\* Object.entries(this.providers).map(async ...): every callback runs up to its
\* await, so provider.backup has been invoked on every provider when map returns
StartStores(st) ==
    [p \in ProviderNames |-> IF p \in providers THEN "inflight" ELSE st[p]]

CountStarts(st, cnt) ==
    [p \in ProviderNames |-> IF st[p] = "inflight" THEN cnt[p] + 1 ELSE cnt[p]]

\* createPageBackup has settled
BackupBuilt(outcome) ==
    /\ bpPc = "awaitBuild"
    /\ bpBuild' = outcome
    /\ CASE outcome = "null" ->
              /\ bpPc' = "done"
              /\ UNCHANGED <<bpStore, bpCalls, bpNotice>>
         [] outcome = "throws" ->
              /\ bpPc' = "done"
              /\ bpNotice' = "error"
              /\ UNCHANGED <<bpStore, bpCalls>>
         [] outcome = "artifact" ->
              /\ bpPc' = "awaitAll"
              /\ bpStore' = StartStores(bpStore)
              /\ bpCalls' = CountStarts(bpStore', bpCalls)
              /\ UNCHANGED bpNotice
    /\ UNCHANGED <<bpSuccessCount, bpProviderCount>>

\* provider.backup of p settles: true, false or an exception
StoreSettle(p, r) ==
    /\ bpStore[p] = "inflight"
    /\ bpStore' = [bpStore EXCEPT ![p] = r]
    /\ UNCHANGED <<bpPc, bpBuild, bpCalls, bpSuccessCount, bpProviderCount,
                   bpNotice>>

\* faulty variant: without the try/catch of the map callback Promise.all
\* rejects as soon as one provider throws
PromiseAllRejectsEarly(st) ==
    \/ \A p \in providers : st[p] \in Settled
    \/ \E p \in providers : st[p] = "threw"

\* Promise.all over the map callbacks, none of which rejects
PromiseAllSettled(st) == \A p \in providers : st[p] \in Settled

\* results.filter(Boolean).length: a caught exception counts as false
SuccessCount(st) == Cardinality({p \in providers : st[p] = "true"})

\* faulty variant: the partial test made first
ClassifyPartialFirst(sc, pc) ==
    IF sc > 0 THEN "warning"
    ELSE IF sc = pc THEN "success" ELSE "error"

\* the notification chosen from successCount and providerCount
Classify(sc, pc) ==
    IF sc = pc THEN "success"
    ELSE IF sc > 0 THEN "warning" ELSE "error"

BackupAggregate ==
    /\ bpPc = "awaitAll"
    /\ PromiseAllSettled(bpStore)
    /\ bpSuccessCount' = SuccessCount(bpStore)
    /\ bpProviderCount' = Cardinality(providers)
    /\ bpNotice' = Classify(bpSuccessCount', bpProviderCount')
    /\ bpPc' = "done"
    /\ UNCHANGED <<bpBuild, bpStore, bpCalls>>

(***************************************************************************)
(* backupAllPages: the page loop with its three counters.                  *)
(***************************************************************************)
\* bound: pages the graph holds
MaxPages == 2

FullRunCall ==
    /\ frPc = "idle"
    /\ frPc' = "listing"
    /\ UNCHANGED <<frN, frIdx, frCursor, frOk, frStored, frCounts, frLog, frSummary>>

\* logseq.Editor.getAllPages() has settled with n pages
FullRunListed(n) ==
    /\ frPc = "listing"
    /\ frN' = n
    /\ IF n = 0 \/ enabledNames = {}
       THEN /\ frPc' = "done"
            /\ frSummary' = "warning"
            /\ UNCHANGED frIdx
       ELSE /\ frPc' = "page"
            /\ frIdx' = 1
            /\ UNCHANGED frSummary
    /\ UNCHANGED <<frCursor, frOk, frStored, frCounts, frLog>>

\* faulty variant: a skipped page moves the loop on without being counted
FullRunCountSkipUncounted(kind, page, built, stored) ==
    /\ frCounts' = IF kind = "skipped" THEN frCounts
                   ELSE [frCounts EXCEPT ![kind] = @ + 1]
    /\ frLog' = Append(frLog, [kind |-> kind, page |-> page, built |-> built,
                                stored |-> stored])
    /\ frIdx' = frIdx + 1
    /\ IF frIdx = frN
       THEN /\ frPc' = "done"
            /\ frSummary' = IF frCounts'.error > 0 THEN "warning" ELSE "success"
       ELSE /\ frPc' = "page"
            /\ UNCHANGED frSummary

\* the loop moves on from the current page, counted as kind; after the last
\* page the summary is shown
FullRunCount(kind, page, built, stored) ==
    /\ frCounts' = [frCounts EXCEPT ![kind] = @ + 1]
    /\ frLog' = Append(frLog, [kind |-> kind, page |-> page, built |-> built,
                                stored |-> stored])
    /\ frIdx' = frIdx + 1
    /\ IF frIdx = frN
       THEN /\ frPc' = "done"
            /\ frSummary' = IF frCounts'.error > 0 THEN "warning" ELSE "success"
       ELSE /\ frPc' = "page"
            /\ UNCHANGED frSummary

PageKinds == {"system", "tag", "untagged", "null", "throws", "artifact"}

\* one page up to the first provider.backup: the skip tests, then createPageBackup
FullRunPage(kind) ==
    /\ frPc = "page"
    /\ CASE kind \in {"system", "tag", "untagged"} ->
              /\ FullRunCount("skipped", kind, FALSE, 0)
              /\ UNCHANGED <<frCursor, frOk, frStored>>
         [] kind \in {"null", "throws"} ->
              /\ FullRunCount("error", kind, FALSE, 0)
              /\ UNCHANGED <<frCursor, frOk, frStored>>
         [] kind = "artifact" ->
              /\ frOk' = TRUE
              /\ frStored' = 0
              /\ frCursor' = ProviderEntries
              /\ IF ProviderEntries = <<>>
                 THEN FullRunCount("success", kind, TRUE, 0)
                 ELSE /\ frPc' = "store"
                      /\ UNCHANGED <<frIdx, frCounts, frLog, frSummary>>
    /\ UNCHANGED frN

\* provider.backup of the next provider settles: true, false or an exception
FullRunStore(r) ==
    /\ frPc = "store"
    /\ frCursor' = Tail(frCursor)
    /\ frOk' = (frOk /\ r = "true")
    /\ frStored' = IF r = "true" THEN frStored + 1 ELSE frStored
    /\ IF frCursor' = <<>>
       THEN FullRunCount(IF frOk' THEN "success" ELSE "error", "artifact", TRUE,
                         frStored')
       ELSE UNCHANGED <<frPc, frIdx, frCounts, frLog, frSummary>>
    /\ UNCHANGED frN

BuildOutcomes == {"artifact", "null", "throws"}

BackupBuilds == \E o \in BuildOutcomes : BackupBuilt(o)
StoreSettles == \E p \in ProviderNames, r \in Settled : StoreSettle(p, r)
FullRunLists == \E n \in 0..MaxPages : FullRunListed(n)
FullRunPages == \E k \in PageKinds : FullRunPage(k)
FullRunStores == \E r \in Settled : FullRunStore(r)


(***************************************************************************)
(* Strings are sequences of characters; a missing or empty string is <<>>. *)
(***************************************************************************)
EndsWith(s, t) ==
    /\ Len(t) <= Len(s)
    /\ SubSeq(s, Len(s) - Len(t) + 1, Len(s)) = t

(***************************************************************************)
(* Dates.  A timestamp string either is a date (of ms milliseconds) or is  *)
(* not; new Date(string) of the latter is an Invalid Date, whose getTime() *)
(* is NaN.  Every comparison with NaN is false.                            *)
(***************************************************************************)
IsoString(ms) == [kind |-> "iso", ms |-> ms]
BadString == [kind |-> "bad", ms |-> 0]

NaN == [nan |-> TRUE, ms |-> 0]
Num(ms) == [nan |-> FALSE, ms |-> ms]

\* new Date(timestamp).getTime()
ParseDate(ts) == IF ts.kind = "iso" THEN Num(ts.ms) ELSE NaN

NumSub(a, b) == IF a.nan \/ b.nan THEN NaN ELSE Num(a.ms - b.ms)
NumAbs(a) == IF a.nan THEN NaN ELSE Num(IF a.ms < 0 THEN 0 - a.ms ELSE a.ms)
NumLess(a, b) == ~a.nan /\ ~b.nan /\ a.ms < b.ms

(***************************************************************************)
(* BaseBackupProvider.getRemoteMetadataFromCache: the entries matching the *)
(* path, sorted by timestamp, latest first; the first is returned.         *)
(***************************************************************************)
PathMatches(backup, filePath) ==
    /\ backup.filePath # <<>>
    /\ (backup.filePath = filePath \/ EndsWith(backup.filePath, filePath))

Matching(backups, filePath) ==
    {i \in DOMAIN backups : PathMatches(backups[i], filePath)}

\* The indices sort() may put first.  With valid dates the sort is stable: the
\* first of the latest entries.  A comparator that returns NaN is not a
\* consistent comparator, and the order sort() leaves is then implementation
\* defined: any matching entry may come first.
SortedFirst(backups, m) ==
    IF \E i \in m : ParseDate(backups[i].timestamp).nan
    THEN m
    ELSE {i \in m : \A j \in m :
             \/ backups[j].timestamp.ms < backups[i].timestamp.ms
             \/ (backups[j].timestamp.ms = backups[i].timestamp.ms /\ i <= j)}

(***************************************************************************)
(* BaseBackupProvider.diffWithRemote.                                      *)
(***************************************************************************)
Tolerance == 5000

\* older variant of the comparison: no tolerance
CompareExact(remoteTs, localUpdatedAt) ==
    LET remoteTimestamp == ParseDate(remoteTs) IN
    IF NumLess(remoteTimestamp, localUpdatedAt) THEN "local-newer"
    ELSE IF NumLess(localUpdatedAt, remoteTimestamp) THEN "remote-newer"
    ELSE "same"

\* the comparison of the matched entry's timestamp with localUpdatedAt
Compare(remoteTs, localUpdatedAt) ==
    LET remoteTimestamp == ParseDate(remoteTs)
        timeDifference == NumAbs(NumSub(remoteTimestamp, localUpdatedAt))
    IN  IF NumLess(timeDifference, Num(Tolerance)) THEN "same"
        ELSE IF NumLess(remoteTimestamp, localUpdatedAt) THEN "local-newer"
        ELSE "remote-newer"

\* this._cachedBackups || await this.listBackups()
Consulted(cache, remote) == IF cache.present THEN cache.backups ELSE remote

\* listBackups() throws on a provider that is not initialized
LookupThrows(cache, inited) == ~cache.present /\ ~inited

\* getRemoteMetadataFromCache has settled
DiffLookup ==
    /\ dfPc = "idle"
    /\ IF LookupThrows(dfCache, dfInit)
       THEN \* caught: Default to local-newer on error
            /\ dfPc' = "done"
            /\ dfResult' = "local-newer"
            /\ UNCHANGED dfMatched
       ELSE LET backups == Consulted(dfCache, dfRemote)
                m == Matching(backups, dfPath)
            IN  /\ dfPc' = "looked"
                /\ IF m = {} THEN dfMatched' = 0
                   ELSE dfMatched' \in SortedFirst(backups, m)
                /\ UNCHANGED dfResult
    /\ UNCHANGED <<dfPath, dfLocal, dfCache, dfRemote, dfInit>>

DiffDecide ==
    /\ dfPc = "looked"
    /\ dfPc' = "done"
    /\ dfResult' =
          IF dfMatched = 0 THEN "remote-missing"
          ELSE Compare(Consulted(dfCache, dfRemote)[dfMatched].timestamp, dfLocal)
    /\ UNCHANGED <<dfPath, dfLocal, dfCache, dfRemote, dfInit, dfMatched>>

(***************************************************************************)
(* The inputs of diffWithRemote.                                           *)
(***************************************************************************)
\* bound: entries of a backup list
MaxCatalog == 2

\* localUpdatedAt in the examples, in ms
TLocal == 10000

\* "v/a": the page file with the graph name, "a": without, "b/a": another file
PathVA == <<"v", "/", "a">>
PathA == <<"a">>
PathBA == <<"b", "/", "a">>

EntryPaths == {<<>>, PathA, PathVA, PathBA}
QueryPaths == {PathA, PathVA}

RemoteTimes == {TLocal - 8000, TLocal - 5000, TLocal - 4999, TLocal + 3000,
                TLocal + 5000, TLocal + 8000}

Timestamps == {IsoString(t) : t \in RemoteTimes} \cup {BadString}

Entries == [filePath : EntryPaths, timestamp : Timestamps]

Catalogs == UNION {[1..n -> Entries] : n \in 0..MaxCatalog}

NoCache == [present |-> FALSE, backups |-> <<>>]
Cached(bs) == [present |-> TRUE, backups |-> bs]

DiffQuiet ==
    /\ dfPath = <<>>
    /\ dfLocal = NaN
    /\ dfCache = NoCache
    /\ dfRemote = <<>>
    /\ dfInit = FALSE
    /\ dfPc = "off"
    /\ dfMatched = 0
    /\ dfResult = "none"

InitDiff ==
    /\ dfPath \in QueryPaths
    /\ dfLocal \in {Num(TLocal), NaN}
    /\ \E bs \in Catalogs :
          \/ dfCache = Cached(bs) /\ dfRemote = <<>> /\ dfInit = TRUE
          \/ dfCache = NoCache /\ dfRemote = bs /\ dfInit = TRUE
          \/ dfCache = NoCache /\ dfRemote = bs /\ dfInit = FALSE /\ bs = <<>>
    /\ dfPc = "idle"
    /\ dfMatched = 0
    /\ dfResult = "none"

(***************************************************************************)
(* SyncService.syncPage.  The provider object of "s3" is the one whose     *)
(* diffWithRemote runs: isProviderEnabled is false for every other name.   *)
(***************************************************************************)
SyncEntries == SelectSeq(ProviderOrder, LAMBDA p : p \in syProviders)

isProviderEnabled(providerName) == providerName = "s3" /\ syS3Settings

PageName == <<"a">>

NoBackup == [filePath |-> <<>>, pageName |-> <<>>, timestamp |-> BadString]

Append1(acts, p, a) == [acts EXCEPT ![p] = Append(@, a)]

\* syncPage up to the loop over the providers
SyncPageCall ==
    /\ syPc = "idle"
    /\ IF ~syPage \/ syFilePath = <<>>
       THEN syPc' = "done"
       ELSE syPc' = "loop"
    /\ UNCHANGED <<syProviders, syS3Settings, syPage, syPageName, syFilePath, syIdx,
                   syDecision, syActs, syLatest>>
    /\ UNCHANGED diffVars

\* one turn of the loop, up to the await of diffWithRemote
SyncLoop ==
    /\ syPc = "loop"
    /\ IF syIdx > Len(SyncEntries)
       THEN /\ syPc' = "done"
            /\ UNCHANGED <<syIdx, diffVars>>
       ELSE IF ~isProviderEnabled(SyncEntries[syIdx])
       THEN /\ syIdx' = syIdx + 1
            /\ UNCHANGED <<syPc, diffVars>>
       ELSE /\ syPc' = "diff"
            /\ dfPath' = syFilePath
            /\ dfPc' = "idle"
            /\ dfMatched' = 0
            /\ dfResult' = "none"
            /\ UNCHANGED <<syIdx, dfLocal, dfCache, dfRemote, dfInit>>
    /\ UNCHANGED <<syProviders, syS3Settings, syPage, syPageName, syFilePath, syDecision,
                   syActs, syLatest>>

\* switch (diffResult)
SyncSwitch ==
    /\ syPc = "diff"
    /\ dfPc = "done"
    /\ syDecision' = [syDecision EXCEPT ![SyncEntries[syIdx]] = dfResult]
    /\ IF dfResult \in {"local-newer", "remote-missing"}
       THEN syPc' = "push" /\ UNCHANGED syIdx
       ELSE IF dfResult = "remote-newer"
       THEN syPc' = "pull" /\ UNCHANGED syIdx
       ELSE syPc' = "loop" /\ syIdx' = syIdx + 1
    /\ dfPc' = "off"
    /\ UNCHANGED <<dfPath, dfLocal, dfCache, dfRemote, dfInit, dfMatched,
                   dfResult>>
    /\ UNCHANGED <<syProviders, syS3Settings, syPage, syPageName, syFilePath, syActs,
                   syLatest>>

\* pushToRemote: provider.backup is called once, whatever it returns
pushToRemote ==
    /\ syPc = "push"
    /\ syActs' = Append1(syActs, SyncEntries[syIdx], "store")
    /\ syPc' = "loop"
    /\ syIdx' = syIdx + 1
    /\ UNCHANGED <<syProviders, syS3Settings, syPage, syPageName, syFilePath, syDecision,
                   syLatest>>
    /\ UNCHANGED diffVars

\* pullFromRemote: the filter over the fresh list
PullMatches(b, pageName, filePath) ==
    \/ b.pageName = pageName
    \/ /\ b.filePath # <<>>
       /\ (b.filePath = filePath \/ EndsWith(b.filePath, filePath))

PageBackups(backups, pageName, filePath) ==
    {i \in DOMAIN backups : PullMatches(backups[i], pageName, filePath)}

\* pullFromRemote up to restoreBackup: provider.listBackups() returns what is
\* on the remote, or [] when listFiles fails
pullFromRemoteList(listed) ==
    /\ syPc = "pull"
    /\ LET backups == IF listed THEN dfRemote ELSE <<>>
           m == PageBackups(backups, syPageName, syFilePath)
       IN  /\ syActs' = Append1(syActs, SyncEntries[syIdx], "list")
           /\ IF m = {}
              THEN /\ syPc' = "loop"
                   /\ syIdx' = syIdx + 1
                   /\ UNCHANGED syLatest
              ELSE /\ syPc' = "fetch"
                   /\ \E i \in SortedFirst(backups, m) : syLatest' = backups[i]
                   /\ UNCHANGED syIdx
    /\ UNCHANGED <<syProviders, syS3Settings, syPage, syPageName, syFilePath, syDecision>>
    /\ UNCHANGED diffVars

\* provider.restoreBackup(latestBackup.timestamp) has settled
pullFromRemoteFetch(found) ==
    /\ syPc = "fetch"
    /\ syActs' = Append1(syActs, SyncEntries[syIdx], "fetch")
    /\ IF found
       THEN syPc' = "update" /\ UNCHANGED syIdx
       ELSE syPc' = "loop" /\ syIdx' = syIdx + 1
    /\ UNCHANGED <<syProviders, syS3Settings, syPage, syPageName, syFilePath, syDecision,
                   syLatest>>
    /\ UNCHANGED diffVars

\* logseq.Editor.updatePage has settled
pullFromRemoteUpdate ==
    /\ syPc = "update"
    /\ syActs' = Append1(syActs, SyncEntries[syIdx], "update")
    /\ syPc' = "loop"
    /\ syIdx' = syIdx + 1
    /\ UNCHANGED <<syProviders, syS3Settings, syPage, syPageName, syFilePath, syDecision,
                   syLatest>>
    /\ UNCHANGED diffVars

pullFromRemoteLists == \E listed \in BOOLEAN : pullFromRemoteList(listed)

pullFromRemoteFetches == \E found \in BOOLEAN : pullFromRemoteFetch(found)

(***************************************************************************)
(* The inputs of syncPage.                                                 *)
(***************************************************************************)
\* bound: entries of the provider's backup list in a sync
MaxSyncCatalog == 1

SyncBackups == [filePath : {PathVA, PathBA}, pageName : {<<>>, PageName},
                timestamp : {IsoString(TLocal - 8000), IsoString(TLocal + 3000),
                             IsoString(TLocal + 8000), BadString}]

SyncCatalogs == UNION {[1..n -> SyncBackups] : n \in 0..MaxSyncCatalog}

SyncQuiet ==
    /\ syProviders = {}
    /\ syS3Settings = FALSE
    /\ syPage = FALSE
    /\ syPageName = <<>>
    /\ syFilePath = <<>>
    /\ syPc = "off"
    /\ syIdx = 1
    /\ syDecision = [p \in ProviderNames |-> "none"]
    /\ syActs = [p \in ProviderNames |-> <<>>]
    /\ syLatest = NoBackup

\* A provider in the map was enabled by the settings (for s3: the bucket and
\* keys are set) and its initialize() returned true; the cache is what
\* performInitialSync stored, or null.
InitSync ==
    /\ syProviders \in SUBSET ProviderNames
    /\ syS3Settings \in BOOLEAN
    /\ "s3" \in syProviders => syS3Settings
    /\ syPage \in BOOLEAN
    /\ syPageName = PageName
    /\ syFilePath \in {<<>>} \cup QueryPaths
    /\ syPc = "idle"
    /\ syIdx = 1
    /\ syDecision = [p \in ProviderNames |-> "none"]
    /\ syActs = [p \in ProviderNames |-> <<>>]
    /\ syLatest = NoBackup
    /\ dfPath = <<>>
    /\ dfLocal \in {Num(TLocal), NaN}
    /\ dfRemote \in SyncCatalogs
    /\ dfCache \in {NoCache, Cached(dfRemote)}
    /\ dfInit = TRUE
    /\ dfPc = "off"
    /\ dfMatched = 0
    /\ dfResult = "none"

(***************************************************************************)
(* SyncService.performInitialSync.                                         *)
(***************************************************************************)
\* the pages of the graph: A is a tag page, B and C are ordinary pages
Docs == <<"A", "B", "C">>

DocName == [A |-> <<"#", "a">>, B |-> <<"b">>, C |-> <<"c">>]

\* getPageFilePath of the page: graph name, then the file of the page
DocPath == [A |-> PathVA, B |-> <<"v", "/", "b">>, C |-> <<"v", "/", "c">>]

\* detectTagPage, case 1: the page name starts with '#'
detectTagPage(name) == Len(name) > 0 /\ name[1] = "#"

\* bound: pages that getAllPages() returns
MaxSyncPages == 3

PageLists ==
    {ps \in UNION {[1..n -> Range(Docs)] : n \in 0..MaxSyncPages} :
        \A i, j \in DOMAIN ps : i # j => ps[i] # ps[j]}

\* what the remote holds for a page, relative to the page's updatedAt
RemoteStates == {"none", "older", "same", "newer"}

StampOf(st) ==
    CASE st = "older" -> IsoString(TLocal - 8000)
      [] st = "same" -> IsoString(TLocal + 3000)
      [] st = "newer" -> IsoString(TLocal + 8000)

RemoteOf(f) ==
    LET held == SelectSeq(Docs, LAMBDA d : f[d] # "none")
    IN  [i \in DOMAIN held |->
            [filePath |-> DocPath[held[i]], pageName |-> DocName[held[i]],
             timestamp |-> StampOf(f[held[i]])]]

PerformInitialSync ==
    /\ psPc = "idle"
    /\ psPc' = "pages"
    /\ UNCHANGED <<psPages, psProvIdx, psIdx, psLists, psLog, psFault>>
    /\ UNCHANGED <<diffVars, syncVars>>

\* logseq.Editor.getAllPages() has settled
PassGotPages(ok) ==
    /\ psPc = "pages"
    /\ IF ok
       THEN psPc' = "list" /\ psProvIdx' = 1
       ELSE psPc' = "failed" /\ UNCHANGED psProvIdx
    /\ psFault' = (psFault \/ ~ok)
    /\ UNCHANGED <<psPages, psIdx, psLists, psLog>>
    /\ UNCHANGED <<diffVars, syncVars>>

\* one turn of the listing loop, up to the await of provider.listBackups()
PassListLoop ==
    /\ psPc = "list"
    /\ IF psProvIdx > Len(SyncEntries)
       THEN /\ psPc' = "page"
            /\ psIdx' = 1
            /\ UNCHANGED <<psProvIdx, psLists>>
       ELSE IF ~isProviderEnabled(SyncEntries[psProvIdx])
       THEN /\ psProvIdx' = psProvIdx + 1
            /\ UNCHANGED <<psPc, psIdx, psLists>>
       ELSE /\ psPc' = "listing"
            /\ psLists' = [psLists EXCEPT ![SyncEntries[psProvIdx]] = @ + 1]
            /\ UNCHANGED <<psProvIdx, psIdx>>
    /\ UNCHANGED <<psPages, psLog, psFault>>
    /\ UNCHANGED <<diffVars, syncVars>>

\* provider.listBackups() has settled: what is on the remote, or [] when
\* listFiles fails; the list is stored in _cachedBackups
PassListed(listed) ==
    /\ psPc = "listing"
    /\ dfCache' = Cached(IF listed THEN dfRemote ELSE <<>>)
    /\ psProvIdx' = psProvIdx + 1
    /\ psPc' = "list"
    /\ psFault' = (psFault \/ ~listed)
    /\ UNCHANGED <<psPages, psIdx, psLists, psLog>>
    /\ UNCHANGED <<dfPath, dfLocal, dfRemote, dfInit, dfPc, dfMatched, dfResult>>
    /\ UNCHANGED syncVars

\* one turn of the page loop: syncPage(page.name) is called; getPage may no
\* longer find the page
PassPage(found) ==
    /\ psPc = "page"
    /\ IF psIdx > Len(psPages)
       THEN /\ psPc' = "done"
            /\ UNCHANGED <<syncVars, psFault>>
       ELSE /\ psPc' = "sync"
            /\ psFault' = (psFault \/ ~found)
            /\ syPc' = "idle"
            /\ syPage' = found
            /\ syPageName' = DocName[psPages[psIdx]]
            /\ syFilePath' = DocPath[psPages[psIdx]]
            /\ syIdx' = 1
            /\ syDecision' = [p \in ProviderNames |-> "none"]
            /\ syActs' = [p \in ProviderNames |-> <<>>]
            /\ syLatest' = NoBackup
            /\ UNCHANGED <<syProviders, syS3Settings>>
    /\ UNCHANGED <<psPages, psProvIdx, psIdx, psLists, psLog>>
    /\ UNCHANGED diffVars

\* syncPage has returned
PassPageDone ==
    /\ psPc = "sync"
    /\ syPc = "done"
    /\ psLog' = Append(psLog, [doc |-> psPages[psIdx], decision |-> syDecision,
                               acts |-> syActs, latest |-> syLatest])
    /\ psIdx' = psIdx + 1
    /\ psPc' = "page"
    /\ syPc' = "off"
    /\ UNCHANGED <<psPages, psProvIdx, psLists, psFault>>
    /\ UNCHANGED <<syProviders, syS3Settings, syPage, syPageName, syFilePath,
                   syIdx, syDecision, syActs, syLatest>>
    /\ UNCHANGED diffVars

PassGetsPages == \E ok \in BOOLEAN : PassGotPages(ok)
PassLists == \E listed \in BOOLEAN : PassListed(listed)
PassPages == \E found \in BOOLEAN : PassPage(found)

\* the steps of pullFromRemote within a pass
PassPullLists ==
    \E listed \in BOOLEAN :
        /\ pullFromRemoteList(listed)
        /\ psFault' = (psFault \/ ~listed)
        /\ UNCHANGED <<psPc, psPages, psProvIdx, psIdx, psLists, psLog>>

PassPullFetches ==
    \E found \in BOOLEAN :
        /\ pullFromRemoteFetch(found)
        /\ psFault' = (psFault \/ ~found)
        /\ UNCHANGED <<psPc, psPages, psProvIdx, psIdx, psLists, psLog>>

PassQuiet ==
    /\ psPc = "off"
    /\ psPages = <<>>
    /\ psProvIdx = 1
    /\ psIdx = 1
    /\ psLists = [p \in ProviderNames |-> 0]
    /\ psLog = <<>>
    /\ psFault = FALSE

\* the service after initialize(), before the first pass
InitPass ==
    /\ syProviders \in SUBSET ProviderNames
    /\ syS3Settings \in BOOLEAN
    /\ "s3" \in syProviders => syS3Settings
    /\ syPage = FALSE
    /\ syPageName = <<>>
    /\ syFilePath = <<>>
    /\ syPc = "off"
    /\ syIdx = 1
    /\ syDecision = [p \in ProviderNames |-> "none"]
    /\ syActs = [p \in ProviderNames |-> <<>>]
    /\ syLatest = NoBackup
    /\ dfPath = <<>>
    /\ dfLocal = Num(TLocal)
    /\ \E f \in [Range(Docs) -> RemoteStates] : dfRemote = RemoteOf(f)
    /\ dfCache = NoCache
    /\ dfInit = TRUE
    /\ dfPc = "off"
    /\ dfMatched = 0
    /\ dfResult = "none"
    /\ psPc = "idle"
    /\ psPages \in PageLists
    /\ psProvIdx = 1
    /\ psIdx = 1
    /\ psLists = [p \in ProviderNames |-> 0]
    /\ psLog = <<>>
    /\ psFault = FALSE

(***************************************************************************)
(* Settings changes: logseq.onSettingsChanged calls updateSettings of the  *)
(* BackupService and of the SyncService, without awaiting either.          *)
(***************************************************************************)
\* bound: the credentials of a provider take the values 0..MaxCred
MaxCred == 1

NoCred == -1

AllSettings == [ProviderNames -> [enabled : BOOLEAN, cred : 0..MaxCred]]

getEnabledProviders(st) == {p \in ProviderNames : st[p].enabled}

InOrder(ps) == SelectSeq(ProviderOrder, LAMBDA p : p \in ps)

\* the synchronous part of both updateSettings calls: up to the first
\* provider.initialize(this.settings) each of them awaits
OnSettingsChanged(newSettings) ==
    LET previousProviders == getEnabledProviders(settings)
        currentProviders == getEnabledProviders(newSettings)
        bsNew == InOrder(currentProviders \ previousProviders)
        ssKept == syProviders \ (previousProviders \ currentProviders)
        ssNew == InOrder((currentProviders \ previousProviders) \ ssKept)
    IN  /\ usPc = "idle"
        /\ usPc' = "called"
        /\ usPrev' = settings
        /\ settings' = newSettings
        \* BackupService.updateSettings
        /\ enabledNames' = currentProviders
        /\ providers' = providers \ (previousProviders \ currentProviders)
        /\ bsInitWith' = [p \in ProviderNames |->
                IF p \in providers' THEN bsInitWith[p] ELSE NoCred]
        /\ bsTodo' = bsNew
        /\ bsPc' = IF bsNew = <<>> THEN "done" ELSE "init"
        /\ bsInits' = [p \in ProviderNames |->
                IF bsNew # <<>> /\ p = Head(bsNew) THEN 1 ELSE 0]
        \* SyncService.updateSettings
        /\ syS3Settings' \in IF newSettings["s3"].enabled THEN {TRUE} ELSE BOOLEAN
        /\ syProviders' = ssKept
        /\ ssInitWith' = [p \in ProviderNames |->
                IF p \in ssKept THEN ssInitWith[p] ELSE NoCred]
        /\ ssTodo' = ssNew
        /\ ssPc' = IF ssNew = <<>> THEN "done" ELSE "init"
        /\ ssInits' = [p \in ProviderNames |->
                IF ssNew # <<>> /\ p = Head(ssNew) THEN 1 ELSE 0]
        /\ dfCache' = IF ssNew = <<>> THEN NoCache ELSE dfCache
        /\ UNCHANGED <<dfPath, dfLocal, dfRemote, dfInit, dfPc, dfMatched,
                       dfResult>>
        /\ UNCHANGED <<syPage, syPageName, syFilePath, syPc, syIdx,
                       syDecision, syActs, syLatest>>

\* BackupService: provider.initialize(this.settings) has settled
BsInitSettle(ok) ==
    /\ bsPc = "init"
    /\ LET p == Head(bsTodo) IN
        /\ providers' = IF ok THEN providers \cup {p} ELSE providers
        /\ bsInitWith' = IF ok THEN [bsInitWith EXCEPT ![p] = settings[p].cred]
                         ELSE bsInitWith
        /\ bsTodo' = Tail(bsTodo)
        /\ IF bsTodo' = <<>>
           THEN bsPc' = "done" /\ UNCHANGED bsInits
           ELSE /\ bsInits' = [bsInits EXCEPT ![Head(bsTodo')] = @ + 1]
                /\ UNCHANGED bsPc
    /\ UNCHANGED <<settings, usPrev, usPc, ssPc, ssTodo, ssInitWith, ssInits>>
    /\ UNCHANGED <<enabledNames, diffVars, syncVars>>

\* SyncService: provider.initialize(this.settings) has settled; after the
\* last one the cached lists of the providers in the map are cleared
SsInitSettle(ok) ==
    /\ ssPc = "init"
    /\ LET p == Head(ssTodo) IN
        /\ syProviders' = IF ok THEN syProviders \cup {p} ELSE syProviders
        /\ ssInitWith' = IF ok THEN [ssInitWith EXCEPT ![p] = settings[p].cred]
                         ELSE ssInitWith
        /\ ssTodo' = Tail(ssTodo)
        /\ IF ssTodo' = <<>>
           THEN /\ ssPc' = "done"
                /\ dfCache' = NoCache
                /\ UNCHANGED ssInits
           ELSE /\ ssInits' = [ssInits EXCEPT ![Head(ssTodo')] = @ + 1]
                /\ UNCHANGED <<ssPc, dfCache>>
    /\ UNCHANGED <<settings, usPrev, usPc, bsPc, bsTodo, bsInitWith, bsInits>>
    /\ UNCHANGED <<enabledNames, providers>>
    /\ UNCHANGED <<dfPath, dfLocal, dfRemote, dfInit, dfPc, dfMatched, dfResult>>
    /\ UNCHANGED <<syS3Settings, syPage, syPageName, syFilePath, syPc, syIdx,
                   syDecision, syActs, syLatest>>

SettingsChange == \E newSettings \in AllSettings : OnSettingsChanged(newSettings)
BsInitSettles == \E ok \in BOOLEAN : BsInitSettle(ok)
SsInitSettles == \E ok \in BOOLEAN : SsInitSettle(ok)

SetQuiet ==
    /\ settings = [p \in ProviderNames |-> [enabled |-> FALSE, cred |-> 0]]
    /\ usPrev = settings
    /\ usPc = "off"
    /\ bsPc = "off"
    /\ bsTodo = <<>>
    /\ bsInitWith = [p \in ProviderNames |-> NoCred]
    /\ bsInits = [p \in ProviderNames |-> 0]
    /\ ssPc = "off"
    /\ ssTodo = <<>>
    /\ ssInitWith = [p \in ProviderNames |-> NoCred]
    /\ ssInits = [p \in ProviderNames |-> 0]

\* both services after initialize(settings): the providers whose initialize
\* returned true are in the maps; the s3 provider of the SyncService may hold
\* the list a sync pass has cached
InitSettings ==
    /\ settings \in AllSettings
    /\ usPrev = settings
    /\ usPc = "idle"
    /\ bsPc = "idle"
    /\ bsTodo = <<>>
    /\ bsInits = [p \in ProviderNames |-> 0]
    /\ ssPc = "idle"
    /\ ssTodo = <<>>
    /\ ssInits = [p \in ProviderNames |-> 0]
    /\ \E P \in SUBSET getEnabledProviders(settings) :
          /\ InitService(getEnabledProviders(settings), P)
          /\ bsInitWith = [p \in ProviderNames |->
                IF p \in P THEN settings[p].cred ELSE NoCred]
    /\ syProviders \in SUBSET getEnabledProviders(settings)
    /\ ssInitWith = [p \in ProviderNames |->
          IF p \in syProviders THEN settings[p].cred ELSE NoCred]
    /\ syS3Settings \in IF settings["s3"].enabled THEN {TRUE} ELSE BOOLEAN
    /\ syPage = FALSE
    /\ syPageName = <<>>
    /\ syFilePath = <<>>
    /\ syPc = "off"
    /\ syIdx = 1
    /\ syDecision = [p \in ProviderNames |-> "none"]
    /\ syActs = [p \in ProviderNames |-> <<>>]
    /\ syLatest = NoBackup
    /\ dfPath = <<>>
    /\ dfLocal = Num(TLocal)
    /\ dfRemote = <<>>
    /\ dfCache \in IF "s3" \in syProviders THEN {NoCache, Cached(<<>>)}
                   ELSE {NoCache}
    /\ dfInit = TRUE
    /\ dfPc = "off"
    /\ dfMatched = 0
    /\ dfResult = "none"

(***************************************************************************)
(* Storage keys.  backup(data, metadata) of a provider first derives the   *)
(* key of the object it writes from the metadata (generateBackupKey).      *)
(* The metadata come from createPageBackup on the backup path and from     *)
(* getPageFilePath and pushToRemote on the sync path.  Strings are         *)
(* sequences of characters, so every string operation is computed.         *)
(***************************************************************************)
Slash == <<"/">>
Md == <<".", "m", "d">>
Zip == <<".", "z", "i", "p">>
JournalsDir == <<"j", "o", "u", "r", "n", "a", "l", "s", "/">>
PagesDir == <<"p", "a", "g", "e", "s", "/">>
BackupsDir == <<"b", "a", "c", "k", "u", "p", "s", "/">>
DefaultPrefix ==
    <<"l", "o", "g", "s", "e", "q", "-", "b", "a", "c", "k", "u", "p">>
DefaultGraph == <<"d", "e", "f", "a", "u", "l", "t">>

LowerCase ==
    <<"a", "b", "c", "d", "e", "f", "g", "h", "i", "j", "k", "l", "m", "n",
      "o", "p", "q", "r", "s", "t", "u", "v", "w", "x", "y", "z">>
UpperCase ==
    <<"A", "B", "C", "D", "E", "F", "G", "H", "I", "J", "K", "L", "M", "N",
      "O", "P", "Q", "R", "S", "T", "U", "V", "W", "X", "Y", "Z">>
DigitChars == {"0", "1", "2", "3", "4", "5", "6", "7", "8", "9"}

\* \w of a regular expression
IsWordChar(c) ==
    c \in Range(LowerCase) \cup Range(UpperCase) \cup DigitChars \cup {"_"}

\* String.prototype.toLowerCase
toLowerCase(s) ==
    [i \in DOMAIN s |->
        IF \E k \in DOMAIN UpperCase : UpperCase[k] = s[i]
        THEN LowerCase[CHOOSE k \in DOMAIN UpperCase : UpperCase[k] = s[i]]
        ELSE s[i]]

\* s.replace(/[cs]/g, r) for a character r
replaceAll(s, cs, r) == [i \in DOMAIN s |-> IF s[i] \in cs THEN r ELSE s[i]]

\* s.startsWith(t)
StartsWith(s, t) == Len(t) <= Len(s) /\ SubSeq(s, 1, Len(t)) = t

\* s.includes(t)
includes(s, t) ==
    \E i \in 1..(Len(s) - Len(t) + 1) : SubSeq(s, i, i + Len(t) - 1) = t

\* s.match(/^\d{4}-\d{2}-\d{2}/)
matchesDate(s) ==
    /\ Len(s) >= 10
    /\ \A i \in {1, 2, 3, 4, 6, 7, 9, 10} : s[i] \in DigitChars
    /\ s[5] = "-"
    /\ s[8] = "-"

\* s.split(' ')[0]
firstWord(s) ==
    LET sp == {i \in DOMAIN s : s[i] = " "}
    IN  IF sp = {} THEN s
        ELSE SubSeq(s, 1, (CHOOSE i \in sp : \A j \in sp : i <= j) - 1)

\* the characters that .replace(/[^\w\d_.-]/g, '') keeps
KeepsChar(c) == IsWordChar(c) \/ c \in {".", "-"}

\* name.replace(/ /g, '_').replace(/[^\w\d_.-]/g, '').toLowerCase() + '.md'
safeFileName(name) ==
    toLowerCase(SelectSeq(replaceAll(name, {" "}, "_"), KeepsChar)) \o Md

\* YYYY_MM_DD.md from String(page.journalDay)
journalDayFile(d) ==
    SubSeq(d, 1, 4) \o <<"_">> \o SubSeq(d, 5, 6) \o <<"_">> \o SubSeq(d, 7, 8)
        \o Md

NoMeta ==
    [timestamp |-> <<>>, graphName |-> <<>>, pageName |-> <<>>,
     filePath |-> <<>>, size |-> 0]
NoKey == <<>>
NoPage == [name |-> <<>>, journal |-> FALSE, journalDay |-> <<>>, path |-> <<>>]

\* the prefix an S3 provider puts before every key
S3Prefix(st) ==
    IF EndsWith(st.s3_pathPrefix, Slash) THEN st.s3_pathPrefix
    ELSE st.s3_pathPrefix \o Slash

\* the prefix the WebDAV provider puts before every key
WebDAVPrefix(st) ==
    IF EndsWith(st.webdav_pathPrefix, Slash) THEN st.webdav_pathPrefix
    ELSE (IF st.webdav_pathPrefix # <<>> THEN st.webdav_pathPrefix
          ELSE DefaultPrefix) \o Slash

\* a derivation that puts the graph name before the path whatever the path
\* starts with
pathKeyAlways(prefix, m) == prefix \o m.graphName \o Slash \o m.filePath

\* metadata.filePath is present: the graph name is put before it unless the
\* path starts with it
pathKey(prefix, m) ==
    IF StartsWith(m.filePath, m.graphName \o Slash)
    THEN prefix \o m.filePath
    ELSE prefix \o m.graphName \o Slash \o m.filePath

\* metadata.filePath is absent: a key from the page name and, without a page
\* name, from the timestamp
nameKey(prefix, m) ==
    IF m.pageName # <<>>
    THEN IF matchesDate(m.pageName)
         THEN prefix \o m.graphName \o Slash \o JournalsDir
                \o replaceAll(firstWord(m.pageName), {"-"}, "_") \o Md
         ELSE prefix \o m.graphName \o Slash \o PagesDir
                \o toLowerCase(replaceAll(m.pageName, {" "}, "_")) \o Md
    ELSE prefix \o m.graphName \o Slash \o BackupsDir
            \o replaceAll(m.timestamp, {":", "."}, "-") \o Zip

S3_generateBackupKey(st, m) ==
    IF m.filePath # <<>> THEN pathKey(S3Prefix(st), m)
    ELSE nameKey(S3Prefix(st), m)

WebDAV_generateBackupKey(st, m) ==
    IF m.filePath # <<>> THEN pathKey(WebDAVPrefix(st), m)
    ELSE nameKey(WebDAVPrefix(st), m)

Local_generateBackupKey(st, m) ==
    IF m.filePath # <<>> THEN pathKey(<<>>, m)
    ELSE nameKey(<<>>, m)

\* the S3 provider that implements BackupProvider directly
S3Old_generateBackupKey(st, m) ==
    IF m.filePath # <<>>
    THEN S3Prefix(st) \o m.graphName \o Slash \o m.filePath
    ELSE nameKey(S3Prefix(st), m)

Variants == {"s3", "webdav", "local", "s3old"}

generateBackupKey(v, st, m) ==
    CASE v = "s3" -> S3_generateBackupKey(st, m)
      [] v = "webdav" -> WebDAV_generateBackupKey(st, m)
      [] v = "local" -> Local_generateBackupKey(st, m)
      [] v = "s3old" -> S3Old_generateBackupKey(st, m)

\* graph?.name || 'default'
getGraphName(g) == IF g # <<>> THEN g ELSE DefaultGraph

\* the metadata createPageBackup builds for a page that is not a tag page
createPageBackup(page, g, now, size) ==
    [timestamp |-> now,
     graphName |-> g,
     pageName |-> page.name,
     filePath |->
        IF page.journalDay # <<>>
        THEN JournalsDir \o journalDayFile(page.journalDay)
        ELSE PagesDir \o safeFileName(page.name),
     size |-> size]

\* SyncService.getPageFilePath; <<>> is null
getPageFilePath(page, g) ==
    LET graphName == getGraphName(g)
        inGraph(basePath) ==
            IF includes(basePath, Slash \o graphName \o Slash) THEN basePath
            ELSE graphName \o Slash \o basePath
    IN  IF page.journal /\ page.journalDay # <<>>
        THEN inGraph(JournalsDir \o journalDayFile(page.journalDay))
        ELSE IF page.path # <<>>
        THEN IF includes(page.path, Slash \o graphName \o Slash)
             THEN page.path
             ELSE graphName \o Slash \o page.path
        ELSE IF page.name # <<>>
        THEN inGraph(PagesDir \o safeFileName(page.name))
        ELSE <<>>

\* the metadata pushToRemote hands to provider.backup
pushMetadata(page, g, now, size) ==
    [timestamp |-> now,
     graphName |-> getGraphName(g),
     pageName |-> page.name,
     filePath |-> getPageFilePath(page, g),
     size |-> size]

\* ---- inputs ----
Vault == <<"v", "a", "u", "l", "t">>
ExamplePath ==
    <<"n", "o", "t", "e", "s", "/", "j", "o", "u", "r", "n", "a", "l", "s",
      "/", "2", "0", "2", "4", "_", "0", "1", "_", "0", "1", ".", "m", "d">>

KeyPrefixes == {<<>>, <<"p">>, <<"p", "/">>}
KeySettings == {[s3_pathPrefix |-> p, webdav_pathPrefix |-> p] : p \in KeyPrefixes}
GraphNames == {<<"v">>, Vault}
KeyTimestamps == {<<"1", ":", "2", ".", "3">>, <<"4", ":", "5", ".", "6">>}
KeySizes == {0, 1}
JournalDate == <<"2", "0", "2", "4", "-", "0", "1", "-", "0", "1">>
GivenPaths ==
    {<<>>, <<"v", "/", "a">>, <<"v", "v", "/", "a">>, <<"a">>, ExamplePath}
GivenNames == {<<>>, <<"a">>, <<"A", " ", "b">>, JournalDate \o <<" ", "x">>}
GivenMetas ==
    [timestamp : KeyTimestamps, graphName : GraphNames, pageName : GivenNames,
     filePath : GivenPaths, size : KeySizes]

PagePaths ==
    {<<>>,
     PagesDir \o <<"A", " ", "b">> \o Md,
     <<"/", "x", "/", "v", "/">> \o PagesDir \o <<"a">> \o Md}
Pages ==
    [name : {<<"A", " ", "b">>, <<"#", "a">>},
     journal : BOOLEAN,
     journalDay : {<<>>, <<"2", "0", "2", "4", "0", "1", "0", "1">>},
     path : PagePaths]

Sources == {"given", "backup", "sync"}

\* ---- steps ----
\* BackupService builds the artifact of the page: createPageBackup
BackupPathBuilds ==
    /\ kPage # NoPage
    /\ kMetas["backup"] = NoMeta
    /\ ~detectTagPage(kPage.name)
    /\ \E now \in KeyTimestamps, size \in KeySizes :
          kMetas' = [kMetas EXCEPT
                        !["backup"] = createPageBackup(kPage, kGraph, now, size)]
    /\ UNCHANGED <<kSettings, kGraph, kPage, kKeys>>

\* SyncService.syncPage finds the path of the page and pushes it
SyncPathBuilds ==
    /\ kPage # NoPage
    /\ kMetas["sync"] = NoMeta
    /\ getPageFilePath(kPage, kGraph) # <<>>
    /\ \E now \in KeyTimestamps, size \in KeySizes :
          kMetas' = [kMetas EXCEPT
                        !["sync"] = pushMetadata(kPage, kGraph, now, size)]
    /\ UNCHANGED <<kSettings, kGraph, kPage, kKeys>>

\* backup(data, metadata) of provider variant v derives the key
ProviderBackup(v, src) ==
    /\ kMetas[src] # NoMeta
    /\ kKeys[src][v] = NoKey
    /\ kKeys' = [kKeys EXCEPT
                    ![src][v] = generateBackupKey(v, kSettings, kMetas[src])]
    /\ UNCHANGED <<kSettings, kGraph, kPage, kMetas>>

S3Backup == \E src \in Sources : ProviderBackup("s3", src)
WebDAVBackup == \E src \in Sources : ProviderBackup("webdav", src)
LocalBackup == \E src \in Sources : ProviderBackup("local", src)
S3OldBackup == \E src \in Sources : ProviderBackup("s3old", src)

KeyQuiet ==
    /\ kSettings = [s3_pathPrefix |-> <<>>, webdav_pathPrefix |-> <<>>]
    /\ kGraph = <<>>
    /\ kPage = NoPage
    /\ kMetas = [s \in Sources |-> NoMeta]
    /\ kKeys = [s \in Sources |-> [v \in Variants |-> NoKey]]

\* either a caller hands a metadata record to the providers, or the two paths
\* build theirs from one page of the current graph
InitKey ==
    /\ kSettings \in KeySettings
    /\ kPage \in Pages \cup {NoPage}
    /\ kGraph = IF kPage = NoPage THEN <<>> ELSE <<"v">>
    /\ \E given \in GivenMetas \cup {NoMeta} :
          /\ (given = NoMeta) # (kPage = NoPage)
          /\ kMetas = [s \in Sources |-> IF s = "given" THEN given ELSE NoMeta]
    /\ kKeys = [s \in Sources |-> [v \in Variants |-> NoKey]]

(***************************************************************************)
(* The coalescer after setupEventHandlers.                                 *)
(***************************************************************************)
InitCoalescer ==
    /\ timer = NoTimer
    /\ changeBuffer = <<>>
    /\ isProcessing = FALSE
    /\ sinceEdit = Delay
    /\ pendingTimers = [h \in Handles |-> NotArmed]
    /\ unloadPc = "idle"
    /\ nEvents = 0
    /\ calls = <<>>
    /\ evLog = <<>>
    /\ step = "init"

TimerFires == \E h \in Handles : TimerFire(h)
PassCompletes == \E i \in DOMAIN calls, ok \in BOOLEAN : PassComplete(i, ok)
FlushCompletes == \E i \in DOMAIN calls, ok \in BOOLEAN : FlushComplete(i, ok)

(***************************************************************************)
(* Startup: the three loops that initialize the enabled providers.         *)
(* BackupService.initialize catches per provider, SyncService.initialize    *)
(* has one try around its loop, the exported backupAllPages(settings) does *)
(* not look at what initialize returned.                                   *)
(***************************************************************************)
Initializers == {"BackupService", "SyncService", "backupAllPages"}

\* provider.initialize of the next enabled provider settles with r, in
\* BackupService.initialize: initializeProvider stores the provider when r is
\* true and rethrows an exception, which the loop catches
BackupServiceInitialize(r) ==
    /\ iKind = "BackupService"
    /\ iPc = "init"
    /\ iResult' = [iResult EXCEPT ![Head(iTodo)] = r]
    /\ iSet' = IF r = "true" THEN iSet \cup {Head(iTodo)} ELSE iSet
    /\ iTodo' = Tail(iTodo)
    /\ iPc' = IF iTodo' = <<>> THEN "ready" ELSE "init"
    /\ UNCHANGED <<iKind, iEnabled, iUsed>>

\* the same in SyncService.initialize: an exception leaves the loop through
\* the catch around it and initialize returns false
SyncServiceInitialize(r) ==
    /\ iKind = "SyncService"
    /\ iPc = "init"
    /\ iResult' = [iResult EXCEPT ![Head(iTodo)] = r]
    /\ iSet' = IF r = "true" THEN iSet \cup {Head(iTodo)} ELSE iSet
    /\ iTodo' = IF r = "threw" THEN <<>> ELSE Tail(iTodo)
    /\ iPc' = IF iTodo' = <<>> THEN "ready" ELSE "init"
    /\ UNCHANGED <<iKind, iEnabled, iUsed>>

\* the same in the exported backupAllPages(settings): the provider is stored
\* whatever initialize returned; an exception is caught per provider
HelperInitialize(r) ==
    /\ iKind = "backupAllPages"
    /\ iPc = "init"
    /\ iResult' = [iResult EXCEPT ![Head(iTodo)] = r]
    /\ iSet' = IF r \in {"true", "false"} THEN iSet \cup {Head(iTodo)} ELSE iSet
    /\ iTodo' = Tail(iTodo)
    /\ iPc' = IF iTodo' = <<>> THEN "ready" ELSE "init"
    /\ UNCHANGED <<iKind, iEnabled, iUsed>>

\* the first artifact after startup: provider.backup is invoked on the
\* providers of the map (backupPage, backupAllPages); syncPage passes over the
\* providers that isProviderEnabled rejects, all but s3
FirstStore ==
    /\ iPc = "ready"
    /\ iPc' = "used"
    /\ iUsed' = IF iKind = "SyncService" THEN iSet \cap {"s3"} ELSE iSet
    /\ UNCHANGED <<iKind, iEnabled, iTodo, iResult, iSet>>

BackupServiceInitializes == \E r \in Settled : BackupServiceInitialize(r)
SyncServiceInitializes == \E r \in Settled : SyncServiceInitialize(r)
HelperInitializes == \E r \in Settled : HelperInitialize(r)

StartQuiet ==
    /\ iKind = "none"
    /\ iEnabled = {}
    /\ iPc = "off"
    /\ iTodo = <<>>
    /\ iResult = [p \in ProviderNames |-> "none"]
    /\ iSet = {}
    /\ iUsed = {}

\* a service constructed with settings that enable the providers of iEnabled
InitStart ==
    /\ iKind \in Initializers
    /\ iEnabled \in SUBSET ProviderNames
    /\ iTodo = InOrder(iEnabled)
    /\ iPc = IF iTodo = <<>> THEN "ready" ELSE "init"
    /\ iResult = [p \in ProviderNames |-> "none"]
    /\ iSet = {}
    /\ iUsed = {}

(***************************************************************************)
(* BackupService.processChanges: the blocks of the snapshot are scanned    *)
(* for page names, collected in a Set (insertion order), then backupPage   *)
(* is awaited for every name of the Set.                                   *)
(***************************************************************************)
\* bound: blocks in the snapshot handed to processChanges
MaxBlocks == 3

\* page x has name 'x' and originalName 'X'; page y has 'y' for both
PcDocs == {"x", "y"}
NameOf(d) == <<d>>
OriginalNameOf(d) == IF d = "x" THEN <<"X">> ELSE <<d>>
DocOfName(n) == CHOOSE d \in PcDocs : n \in {NameOf(d), OriginalNameOf(d)}

\* a block carries block.page.name, only block.page.id, or no page at all
BlockShapes ==
    {[doc |-> "x", via |-> "name"], [doc |-> "x", via |-> "id"],
     [doc |-> "y", via |-> "id"], [doc |-> "y", via |-> "none"]}

Snapshots == UNION {[1..n -> BlockShapes] : n \in 0..MaxBlocks}

\* Set.prototype.add on the insertion-ordered Set
SetAdd(set, n) == IF n \in Range(set) THEN set ELSE Append(set, n)

ProcessChangesCall ==
    /\ pcPc = "idle"
    /\ pcPc' = IF pcBlocks = <<>> THEN "done" ELSE "scan"
    /\ UNCHANGED <<pcBlocks, pcModified, pcQueue, pcCur, pcLog, pcBuilt>>
    /\ UNCHANGED bpVars

\* the next block: block.page.name is added at once; for block.page.id the
\* page is fetched, and page.originalName || page.name is added when
\* getPage found it
ScanBlock(found) ==
    /\ pcPc = "scan"
    /\ LET b == Head(pcBlocks)
           added ==
               CASE b.via = "name" -> SetAdd(pcModified, NameOf(b.doc))
                 [] b.via = "id" /\ found ->
                        SetAdd(pcModified, OriginalNameOf(b.doc))
                 [] OTHER -> pcModified
       IN  /\ pcModified' = added
           /\ pcBlocks' = Tail(pcBlocks)
           /\ IF pcBlocks' = <<>>
              THEN pcPc' = "backup" /\ pcQueue' = added
              ELSE UNCHANGED <<pcPc, pcQueue>>
    /\ UNCHANGED <<pcCur, pcLog, pcBuilt>>
    /\ UNCHANGED bpVars

\* what the stores of the backupPage call that has returned settled with
Settles(built, st) ==
    IF built = <<>> \/ built[Len(built)].outcome # "artifact" THEN built
    ELSE [built EXCEPT ![Len(built)].results = st]

\* faulty variant: the loop ends at the first page whose build gave no
\* artifact or whose stores all failed
ProcessChangesNextStopsOnFailure ==
    /\ pcPc = "backup"
    /\ bpPc \in {"idle", "done"}
    /\ pcBuilt' = Settles(pcBuilt, bpStore)
    /\ IF pcQueue = <<>>
          \/ (bpPc = "done" /\ (bpBuild # "artifact" \/ SuccessCount(bpStore) = 0))
       THEN /\ pcPc' = "done"
            /\ UNCHANGED <<pcQueue, pcCur, bpPc>>
       ELSE /\ pcCur' = Head(pcQueue)
            /\ pcQueue' = Tail(pcQueue)
            /\ bpPc' = "awaitBuild"
            /\ UNCHANGED pcPc
    /\ UNCHANGED <<pcBlocks, pcModified, pcLog>>
    /\ UNCHANGED <<bpBuild, bpStore, bpCalls, bpSuccessCount, bpProviderCount,
                   bpNotice>>

\* for (const pageName of modifiedPages) await this.backupPage(pageName):
\* the previous backupPage has returned, the next one is called
ProcessChangesNext ==
    /\ pcPc = "backup"
    /\ bpPc \in {"idle", "done"}
    /\ pcBuilt' = Settles(pcBuilt, bpStore)
    /\ IF pcQueue = <<>>
       THEN /\ pcPc' = "done"
            /\ UNCHANGED <<pcQueue, pcCur, bpPc>>
       ELSE /\ pcCur' = Head(pcQueue)
            /\ pcQueue' = Tail(pcQueue)
            /\ bpPc' = "awaitBuild"
            /\ UNCHANGED pcPc
    /\ UNCHANGED <<pcBlocks, pcModified, pcLog>>
    /\ UNCHANGED <<bpBuild, bpStore, bpCalls, bpSuccessCount, bpProviderCount,
                   bpNotice>>

\* createPageBackup of the current page settles; with an artifact the
\* providers are invoked
ProcessChangesBuilt(o) ==
    /\ pcPc = "backup"
    /\ BackupBuilt(o)
    /\ pcLog' =
          IF o = "artifact"
          THEN Append(pcLog,
                 [page |-> pcCur, doc |-> DocOfName(pcCur),
                  pending |-> Cardinality({p \in ProviderNames :
                                              bpStore[p] = "inflight"})])
          ELSE pcLog
    /\ pcBuilt' = Append(pcBuilt,
                     [page |-> pcCur, outcome |-> o,
                      invoked |-> IF o = "artifact" THEN providers ELSE {},
                      results |-> [p \in ProviderNames |-> "none"]])
    /\ UNCHANGED <<pcPc, pcBlocks, pcModified, pcQueue, pcCur>>

ScanBlocks == \E found \in BOOLEAN : ScanBlock(found)
ProcessChangesBuilds == \E o \in BuildOutcomes : ProcessChangesBuilt(o)

ChangesQuiet ==
    /\ pcPc = "off"
    /\ pcBlocks = <<>>
    /\ pcModified = <<>>
    /\ pcQueue = <<>>
    /\ pcCur = <<>>
    /\ pcLog = <<>>
    /\ pcBuilt = <<>>

\* a snapshot handed to processChanges of a service with providers
InitChanges ==
    /\ pcPc = "idle"
    /\ pcBlocks \in Snapshots
    /\ pcModified = <<>>
    /\ pcQueue = <<>>
    /\ pcCur = <<>>
    /\ pcLog = <<>>
    /\ pcBuilt = <<>>
    /\ \E P \in SUBSET {"s3", "webdav"} : InitService(P, P)

(***************************************************************************)
(* Assets in backupAllPages.  processedAssets is one Set of the module,    *)
(* cleared by every run before its page loop; a run tests and adds an      *)
(* asset path and then awaits backupAsset.  Nothing keeps the toolbar      *)
(* from starting a run while another one is awaiting.                      *)
(***************************************************************************)
\* bound: asset references that the stored pages of the graph hold, in page
\* order
MaxAssetRefs == 3

AssetPaths == {"a", "b"}
Runs == {1, 2}
AssetRefs == UNION {[1..n -> AssetPaths] : n \in 0..MaxAssetRefs}

\* backupAllPages of run r up to its page loop: processedAssets.clear()
FullRunClears(r) ==
    /\ asPc[r] = "idle"
    /\ processedAssets' = {}
    /\ asPc' = [asPc EXCEPT ![r] = IF asRefs = <<>> THEN "done" ELSE "pages"]
    /\ UNCHANGED <<asRefs, asIdx, asLog>>

\* the next asset path of run r: if (!processedAssets.has(assetPath)) it is
\* added and backupAsset is awaited
FullRunAsset(r) ==
    /\ asPc[r] = "pages"
    /\ LET assetPath == asRefs[asIdx[r]] IN
        IF assetPath \notin processedAssets
        THEN /\ processedAssets' = processedAssets \cup {assetPath}
             /\ asLog' = Append(asLog, [run |-> r, asset |-> assetPath])
        ELSE UNCHANGED <<processedAssets, asLog>>
    /\ asIdx' = [asIdx EXCEPT ![r] = @ + 1]
    /\ asPc' = [asPc EXCEPT ![r] = IF asIdx[r] = Len(asRefs) THEN "done"
                                    ELSE "pages"]
    /\ UNCHANGED asRefs

FullRunClearsSet == \E r \in Runs : FullRunClears(r)
FullRunAssets == \E r \in Runs : FullRunAsset(r)

AssetsQuiet ==
    /\ processedAssets = {}
    /\ asRefs = <<>>
    /\ asPc = [r \in Runs |-> "off"]
    /\ asIdx = [r \in Runs |-> 1]
    /\ asLog = <<>>

InitAssets ==
    /\ processedAssets = {}
    /\ asRefs \in AssetRefs
    /\ asPc = [r \in Runs |-> "idle"]
    /\ asIdx = [r \in Runs |-> 1]
    /\ asLog = <<>>

(***************************************************************************)
(* Tag filtering.  backupAllPages asks shouldBackupPage in mode 'tagged';  *)
(* backupPage, which processChanges and the backupCurrentPage action call, *)
(* asks nothing.                                                           *)
(***************************************************************************)
RECURSIVE splitAt(_, _)
\* s.split(c) for a character c
splitAt(s, c) ==
    LET at == {i \in DOMAIN s : s[i] = c}
    IN  IF at = {} THEN <<s>>
        ELSE LET i == CHOOSE k \in at : \A j \in at : k <= j
             IN  <<SubSeq(s, 1, i - 1)>> \o splitAt(SubSeq(s, i + 1, Len(s)), c)

RECURSIVE trim(_)
\* String.prototype.trim, blanks being the only white space
trim(s) ==
    IF s = <<>> THEN s
    ELSE IF Head(s) = " " THEN trim(Tail(s))
    ELSE IF s[Len(s)] = " " THEN trim(SubSeq(s, 1, Len(s) - 1))
    ELSE s

\* parseBackupTags
parseBackupTags(tagsString) ==
    IF tagsString = <<>> \/ trim(tagsString) = <<>> THEN <<>>
    ELSE LET parts == splitAt(tagsString, ",")
             tags == [i \in DOMAIN parts |-> toLowerCase(trim(parts[i]))]
         IN  SelectSeq(tags, LAMBDA tag : Len(tag) > 0)

\* shouldBackupPage(pageTags, settings)
shouldBackupPage(pageTags, st) ==
    IF st.backupMode = "all" THEN TRUE
    ELSE LET requiredTags == parseBackupTags(st.backupTags)
             normalizedPageTags == {toLowerCase(t) : t \in pageTags}
         IN  IF Len(requiredTags) = 0 THEN TRUE
             ELSE \E i \in DOMAIN requiredTags :
                     requiredTags[i] \in normalizedPageTags

BackupPaths == {"full", "auto", "manual"}

TagStrings ==
    {<<>>, <<" ">>, <<"T">>, <<"t", ",", "u">>, <<" ", "u", ",">>}
TagSettings == [backupMode : {"all", "tagged"}, backupTags : TagStrings]
\* what getPageTags returns: lower-case tags
PageTagSets == SUBSET {<<"t">>, <<"u">>, <<"w">>}

\* backupAllPages reaches the page: the tag test, then createPageBackup and
\* the providers
TaggedFullRun ==
    /\ tgOutcome["full"] = "none"
    /\ tgOutcome' = [tgOutcome EXCEPT !["full"] =
          IF tgSettings.backupMode = "tagged"
                /\ ~shouldBackupPage(tgPageTags, tgSettings)
          THEN "skipped" ELSE "dispatched"]
    /\ UNCHANGED <<tgSettings, tgPageTags>>

\* processChanges calls backupPage for the page
TaggedAuto ==
    /\ tgOutcome["auto"] = "none"
    /\ tgOutcome' = [tgOutcome EXCEPT !["auto"] = "dispatched"]
    /\ UNCHANGED <<tgSettings, tgPageTags>>

\* the backupCurrentPage action calls backupPage for the page
TaggedManual ==
    /\ tgOutcome["manual"] = "none"
    /\ tgOutcome' = [tgOutcome EXCEPT !["manual"] = "dispatched"]
    /\ UNCHANGED <<tgSettings, tgPageTags>>

TagQuiet ==
    /\ tgSettings = [backupMode |-> "all", backupTags |-> <<>>]
    /\ tgPageTags = {}
    /\ tgOutcome = [p \in BackupPaths |-> "off"]

\* an ordinary page (no system page, no tag page) with the tags tgPageTags
InitTag ==
    /\ tgSettings \in TagSettings
    /\ tgPageTags \in PageTagSets
    /\ tgOutcome = [p \in BackupPaths |-> "none"]

(***************************************************************************)
(* getEnabledProviders and validateProviderConfig on the flat settings of  *)
(* core/settings.ts.  A string field is <<>> when empty.                   *)
(***************************************************************************)
FieldValues == {<<>>, <<"v">>}
FlatSettings ==
    [s3_enabled : BOOLEAN, s3_bucketName : FieldValues \cup {<<" ">>},
     s3_accessKeyId : FieldValues, s3_secretAccessKey : FieldValues,
     webdav_enabled : BOOLEAN, webdav_url : FieldValues,
     webdav_username : FieldValues, webdav_password : FieldValues,
     local_enabled : BOOLEAN, local_path : FieldValues]

\* truthiness of a string
Truthy(str) == str # <<>>

\* a list that reports every provider whose toggle is on
getEnabledByToggle(s) ==
    (IF s.s3_enabled THEN <<"s3">> ELSE <<>>)
        \o (IF s.webdav_enabled THEN <<"webdav">> ELSE <<>>)
        \o (IF s.local_enabled THEN <<"local">> ELSE <<>>)

\* getEnabledProviders(settings) of core/settings.ts
getEnabledProvidersFlat(s) ==
    (IF s.s3_enabled /\ Truthy(s.s3_bucketName) /\ Truthy(s.s3_accessKeyId)
            /\ Truthy(s.s3_secretAccessKey)
     THEN <<"s3">> ELSE <<>>)
        \o (IF s.webdav_enabled /\ Truthy(s.webdav_url)
                  /\ Truthy(s.webdav_username) /\ Truthy(s.webdav_password)
            THEN <<"webdav">> ELSE <<>>)
        \o (IF s.local_enabled /\ Truthy(s.local_path)
            THEN <<"local">> ELSE <<>>)

\* the error pushed for a field that is empty
ErrorIfEmpty(str, field) == IF ~Truthy(str) THEN <<field>> ELSE <<>>

\* validateProviderConfig(providerName, settings): the list of errors
validateProviderConfig(providerName, s) ==
    CASE providerName = "s3" ->
            ErrorIfEmpty(s.s3_bucketName, "bucketName")
                \o ErrorIfEmpty(s.s3_accessKeyId, "accessKeyId")
                \o ErrorIfEmpty(s.s3_secretAccessKey, "secretAccessKey")
      [] providerName = "webdav" ->
            ErrorIfEmpty(s.webdav_url, "url")
                \o ErrorIfEmpty(s.webdav_username, "username")
                \o ErrorIfEmpty(s.webdav_password, "password")
      [] providerName = "local" -> ErrorIfEmpty(s.local_path, "path")
      [] OTHER -> <<>>

\* not computed yet
NotComputed == <<"?">>

GetEnabledProvidersCall ==
    /\ geEnabled = NotComputed
    /\ geEnabled' = getEnabledProvidersFlat(geSettings)
    /\ UNCHANGED <<geSettings, geErrors>>

ValidateProviderConfigCall(p) ==
    /\ geErrors[p] = NotComputed
    /\ geErrors' = [geErrors EXCEPT ![p] = validateProviderConfig(p, geSettings)]
    /\ UNCHANGED <<geSettings, geEnabled>>

ValidateProviderConfigCalls == \E p \in ProviderNames : ValidateProviderConfigCall(p)

EnabledQuiet ==
    /\ geSettings =
          [s3_enabled |-> FALSE, s3_bucketName |-> <<>>, s3_accessKeyId |-> <<>>,
           s3_secretAccessKey |-> <<>>, webdav_enabled |-> FALSE,
           webdav_url |-> <<>>, webdav_username |-> <<>>,
           webdav_password |-> <<>>, local_enabled |-> FALSE,
           local_path |-> <<>>]
    /\ geEnabled = <<>>
    /\ geErrors = [p \in ProviderNames |-> <<>>]

InitEnabled ==
    /\ geSettings \in FlatSettings
    /\ geEnabled = NotComputed
    /\ geErrors = [p \in ProviderNames |-> NotComputed]

(***************************************************************************)
(* The isChanged-flag coalescer of core/events.ts.  syncState is one       *)
(* module-level object; processChanges(backupService) awaits               *)
(* backupService.processChanges(changes) and keeps no record of a call in  *)
(* progress.                                                               *)
(***************************************************************************)
MaxFlagEvents == 4

\* the synchronous part of processChanges(backupService): reset the flag,
\* drop the timer reference, snapshot and clear the buffer, start the call
FlagProcessChanges ==
    /\ ssIsChanged' = FALSE
    /\ ssDebounceTimer' = "null"
    /\ ssChangeBuffer' = <<>>
    /\ ssStarted' = ssStarted + 1
    /\ ssAwaiting' = ssAwaiting \cup {[call |-> ssStarted + 1,
                                         changes |-> ssChangeBuffer]}

\* logseq.DB.onChanged handler
FlagOnChanged ==
    /\ ssEvents < MaxFlagEvents
    /\ ssEvents' = ssEvents + 1
    /\ ssChangeBuffer' = Append(ssChangeBuffer, ssEvents + 1)
    /\ ssIsChanged' = TRUE
    /\ ssDebounceTimer' = "armed"
    /\ UNCHANGED <<ssAwaiting, ssStarted, ssUnloaded>>

\* the setTimeout callback
FlagTimerFires ==
    /\ ssDebounceTimer = "armed"
    /\ IF ssIsChanged
       THEN FlagProcessChanges
       ELSE /\ ssDebounceTimer' = "fired"
            /\ UNCHANGED <<ssIsChanged, ssChangeBuffer, ssStarted, ssAwaiting>>
    /\ UNCHANGED <<ssEvents, ssUnloaded>>

\* logseq.beforeunload handler, up to its await
FlagBeforeUnload ==
    /\ ~ssUnloaded
    /\ ssUnloaded' = TRUE
    /\ IF ssIsChanged
       THEN FlagProcessChanges
       ELSE /\ ssDebounceTimer' = "null"
            /\ UNCHANGED <<ssIsChanged, ssChangeBuffer, ssStarted, ssAwaiting>>
    /\ UNCHANGED ssEvents

\* backupService.processChanges(changes) settles, resolved or rejected
FlagProcessChangesSettles(c) ==
    /\ c \in ssAwaiting
    /\ ssAwaiting' = ssAwaiting \ {c}
    /\ UNCHANGED <<ssChangeBuffer, ssIsChanged, ssDebounceTimer, ssEvents,
                   ssStarted, ssUnloaded>>

FlagSettles == \E c \in ssAwaiting : FlagProcessChangesSettles(c)

InitFlag ==
    /\ ssChangeBuffer = <<>>
    /\ ssIsChanged = FALSE
    /\ ssDebounceTimer = "null"
    /\ ssAwaiting = {}
    /\ ssEvents = 0
    /\ ssStarted = 0
    /\ ssUnloaded = FALSE

FlagQuiet == InitFlag

(***************************************************************************)
(* Overlapping updateSettings calls.  The onSettingsChanged handler starts *)
(* BackupService.updateSettings and SyncService.updateSettings and awaits  *)
(* neither, so a call may still await provider.initialize when the next    *)
(* settings change arrives.  Settings are seen through the set of          *)
(* providers getEnabledProviders returns for them.                         *)
(***************************************************************************)
MaxChanges == 3

\* the providers of todo from the first one that is not in the map
SkipPresent(todo, present) ==
    LET idx == {i \in DOMAIN todo : todo[i] \notin present}
    IN  IF idx = {} THEN <<>>
        ELSE SubSeq(todo, CHOOSE i \in idx : \A j \in idx : i <= j, Len(todo))

\* the synchronous part of BackupService.updateSettings: the removals and
\* the list of providers it will initialize
BackupUpdateSettings(previousProviders, currentProviders) ==
    LET todo == InOrder(currentProviders \ previousProviders)
    IN  /\ ovBackup' = ovBackup \ (previousProviders \ currentProviders)
        /\ ovBackupCalls' = IF todo = <<>> THEN ovBackupCalls
                            ELSE ovBackupCalls \cup
                                    {[call |-> ovChanges + 1, todo |-> todo]}

\* the synchronous part of SyncService.updateSettings
SyncUpdateSettings(previousProviders, currentProviders) ==
    LET kept == ovSync \ (previousProviders \ currentProviders)
        todo == SkipPresent(InOrder(currentProviders \ previousProviders), kept)
    IN  /\ ovSync' = kept
        /\ ovSyncCalls' = IF todo = <<>> THEN ovSyncCalls
                          ELSE ovSyncCalls \cup
                                  {[call |-> ovChanges + 1, todo |-> todo]}

\* logseq.onSettingsChanged handler
OverlapSettingsChanged(newEnabled) ==
    /\ ovChanges < MaxChanges
    /\ ovChanges' = ovChanges + 1
    /\ ovEnabled' = newEnabled
    /\ BackupUpdateSettings(ovEnabled, newEnabled)
    /\ SyncUpdateSettings(ovEnabled, newEnabled)

\* BackupService: the provider.initialize awaited by call c settles
BackupInitializeSettles(c, ok) ==
    /\ c \in ovBackupCalls
    /\ ovBackup' = IF ok THEN ovBackup \cup {Head(c.todo)} ELSE ovBackup
    /\ ovBackupCalls' =
          IF Tail(c.todo) = <<>> THEN ovBackupCalls \ {c}
          ELSE (ovBackupCalls \ {c}) \cup {[c EXCEPT !.todo = Tail(c.todo)]}
    /\ UNCHANGED <<ovEnabled, ovSync, ovSyncCalls, ovChanges>>

\* SyncService: the provider.initialize awaited by call c settles; the loop
\* goes on with the next provider that is not in the map
SyncInitializeSettles(c, ok) ==
    /\ c \in ovSyncCalls
    /\ ovSync' = IF ok THEN ovSync \cup {Head(c.todo)} ELSE ovSync
    /\ LET rest == SkipPresent(Tail(c.todo), ovSync') IN
          ovSyncCalls' =
              IF rest = <<>> THEN ovSyncCalls \ {c}
              ELSE (ovSyncCalls \ {c}) \cup {[c EXCEPT !.todo = rest]}
    /\ UNCHANGED <<ovEnabled, ovBackup, ovBackupCalls, ovChanges>>

OverlapSettingsChanges ==
    \E newEnabled \in SUBSET ProviderNames : OverlapSettingsChanged(newEnabled)
BackupInitializeSettling ==
    \E c \in ovBackupCalls, ok \in BOOLEAN : BackupInitializeSettles(c, ok)
SyncInitializeSettling ==
    \E c \in ovSyncCalls, ok \in BOOLEAN : SyncInitializeSettles(c, ok)

OverlapQuiet ==
    /\ ovEnabled = {}
    /\ ovBackup = {}
    /\ ovSync = {}
    /\ ovBackupCalls = {}
    /\ ovSyncCalls = {}
    /\ ovChanges = 0

\* both services after initialize(settings): the enabled providers whose
\* initialize returned true are in the maps
InitOverlap ==
    /\ ovEnabled \in SUBSET ProviderNames
    /\ ovBackup \in SUBSET ovEnabled
    /\ ovSync \in SUBSET ovEnabled
    /\ ovBackupCalls = {}
    /\ ovSyncCalls = {}
    /\ ovChanges = 0

(***************************************************************************)
(* One provider and the objects on its remote.  backup(data, metadata)     *)
(* derives the key and uploads; listBackups maps what is on the remote to  *)
(* metadata; restoreBackup(timestamp) looks the key up by timestamp and    *)
(* downloads it.  The classes are S3BackupProvider, WebDAVBackupProvider   *)
(* and LocalBackupProvider.                                                *)
(***************************************************************************)
MaxStores == 2

RemoteVariants == {"s3", "webdav", "local"}

\* two instants, as toISOString() writes them, and what new Date() reads
StampEarly == <<"1", "-", "2", ":", "3", ".", "4">>
StampLate == <<"1", "-", "2", ":", "3", ".", "5">>
Stamps == {StampEarly, StampLate}

\* new Date(timestamp) as a timestamp of the comparison
DateOf(ts) ==
    IF ts = StampEarly THEN IsoString(TLocal)
    ELSE IF ts = StampLate THEN IsoString(TLocal + 1)
    ELSE BadString

RemoteDocs == {"a", "b"}
RemoteGraph == <<"v">>
RemotePage(d) == [name |-> <<d>>, journal |-> FALSE, journalDay |-> <<>>,
                  path |-> <<>>]

\* who built the metadata: createPageBackup, pushToRemote, or a caller that
\* gives neither path nor page name
StoreSources == {"backup", "sync", "raw"}

StoreMetadata(d, src, now) ==
    CASE src = "backup" -> createPageBackup(RemotePage(d), RemoteGraph, now, 0)
      [] src = "sync" -> pushMetadata(RemotePage(d), RemoteGraph, now, 0)
      [] src = "raw" -> [timestamp |-> now, graphName |-> RemoteGraph,
                         pageName |-> <<>>, filePath |-> <<>>, size |-> 0]

LocalStoragePrefix ==
    <<"l", "o", "g", "s", "e", "q", "-", "b", "a", "c", "k", "u", "p", ":">>

\* where uploadFile and downloadFile of the class look for a key
StorageKey(v, key) ==
    CASE v = "s3" -> key
      [] v = "webdav" -> Slash \o key
      [] v = "local" -> LocalStoragePrefix \o key

\* the object is written under its storage key: over the object that is
\* there, or as a new one
PutObject(objects, obj) ==
    IF \E i \in DOMAIN objects : objects[i].at = obj.at
    THEN [i \in DOMAIN objects |->
            IF objects[i].at = obj.at THEN obj ELSE objects[i]]
    ELSE Append(objects, obj)

\* s.replace(t, r) for a string t: the first occurrence only
replaceFirst(s, t, r) ==
    LET at == {i \in 1..(Len(s) - Len(t) + 1) : SubSeq(s, i, i + Len(t) - 1) = t}
    IN  IF at = {} \/ t = <<>> THEN s
        ELSE LET i == CHOOSE k \in at : \A j \in at : k <= j
             IN  SubSeq(s, 1, i - 1) \o r \o SubSeq(s, i + Len(t), Len(s))

Last(s) == s[Len(s)]

Unknown == <<"u", "n", "k", "n", "o", "w", "n">>

\* the entry S3BackupProvider.listFiles makes of a key that ends in .zip
S3ListEntry(obj) ==
    LET keyParts == splitAt(obj.at, "/")
        filename == Last(keyParts)
        graph == IF Len(keyParts) >= 2 /\ keyParts[Len(keyParts) - 1] # <<>>
                 THEN keyParts[Len(keyParts) - 1] ELSE Unknown
    IN  [timestamp |-> replaceAll(replaceFirst(filename, Zip, <<>>), {"-"}, ":"),
         graphName |-> graph,
         pageName |-> <<>>,
         filePath |-> <<>>,
         at |-> obj.at]

\* the entry WebDAVBackupProvider.listFiles makes of a file that ends in .md
WebDAVListEntry(st, obj) ==
    LET prefix == IF st.webdav_pathPrefix # <<>> THEN st.webdav_pathPrefix
                  ELSE DefaultPrefix
        filePath == replaceFirst(obj.at, Slash \o prefix \o Slash, <<>>)
        parts == splitAt(filePath, "/")
        fileName == Last(parts)
    IN  [timestamp |-> obj.lastmod,
         graphName |-> IF parts[1] # <<>> THEN parts[1] ELSE Unknown,
         pageName |-> replaceAll(replaceFirst(fileName, Md, <<>>), {"_"}, " "),
         filePath |-> filePath,
         at |-> obj.at]

\* the entry LocalBackupProvider.listFiles makes: the metadata stored
LocalListEntry(obj) ==
    [timestamp |-> obj.metadata.timestamp,
     graphName |-> obj.metadata.graphName,
     pageName |-> obj.metadata.pageName,
     filePath |-> obj.metadata.filePath,
     at |-> obj.at]

RECURSIVE LatestFirst(_)
\* sort((a, b) => new Date(b.timestamp) - new Date(a.timestamp)) of entries
\* whose timestamps are dates: stable, latest first
LatestFirst(bs) ==
    IF bs = <<>> THEN <<>>
    ELSE LET top == {i \in DOMAIN bs : \A j \in DOMAIN bs :
                        DateOf(bs[j].timestamp).ms <= DateOf(bs[i].timestamp).ms}
             i == CHOOSE k \in top : \A j \in top : k <= j
         IN  <<bs[i]>> \o LatestFirst(SubSeq(bs, 1, i - 1) \o SubSeq(bs, i + 1, Len(bs)))

\* listFiles of the class.  Every entry also carries "at", the place of the
\* object it was made of, which no code reads.  The S3 sort compares dates
\* that do not parse and leaves the order of the response.
listFiles(v, st, objects) ==
    CASE v = "s3" ->
            LET zips == SelectSeq(objects, LAMBDA o : EndsWith(o.at, Zip))
            IN  [i \in DOMAIN zips |-> S3ListEntry(zips[i])]
      [] v = "webdav" ->
            LET files == SelectSeq(objects, LAMBDA o : EndsWith(o.at, Md))
            IN  [i \in DOMAIN files |-> WebDAVListEntry(st, files[i])]
      [] v = "local" ->
            LatestFirst([i \in DOMAIN objects |-> LocalListEntry(objects[i])])

First(s, Test(_)) ==
    LET hits == {i \in DOMAIN s : Test(s[i])}
    IN  IF hits = {} THEN 0 ELSE CHOOSE i \in hits : \A j \in hits : i <= j

\* findFileByTimestamp of the class: the keys it may return; {} is null.
\* S3 takes the first key of the response that contains the timestamp,
\* WebDAV and Local the filePath of the first listed entry with it.
findFileByTimestamp(v, st, objects, timestamp) ==
    IF v = "s3"
    THEN LET formattedTimestamp == replaceAll(timestamp, {":", "."}, "-")
             i == First(objects, LAMBDA o : includes(o.at, formattedTimestamp))
         IN  IF i = 0 THEN {} ELSE {objects[i].at}
    ELSE LET backups == listFiles(v, st, objects)
             i == First(backups, LAMBDA b : b.timestamp = timestamp)
         IN  IF i = 0 \/ backups[i].filePath = <<>> THEN {}
             ELSE {backups[i].filePath}

NoPayload == [doc |-> "none", stamp |-> <<>>]

\* downloadFile(key) of the class; NoPayload is null
downloadFile(v, objects, key) ==
    LET i == First(objects, LAMBDA o : o.at = StorageKey(v, key))
    IN  IF i = 0 THEN NoPayload ELSE objects[i].payload

\* what is stored at a place of the remote
PayloadAt(objects, at) ==
    LET i == First(objects, LAMBDA o : o.at = at)
    IN  IF i = 0 THEN NoPayload ELSE objects[i].payload

\* BaseBackupProvider.restoreBackup(timestamp)
restoreBackup(v, st, objects, timestamp) ==
    LET keys == findFileByTimestamp(v, st, objects, timestamp)
    IN  IF keys = {} THEN [key |-> <<>>, payload |-> NoPayload]
        ELSE LET key == CHOOSE k \in keys : TRUE
             IN  [key |-> key, payload |-> downloadFile(v, objects, key)]

\* listed entries as the comparison reads them
AsBackups(listed) ==
    [i \in DOMAIN listed |->
        [filePath |-> listed[i].filePath, pageName |-> listed[i].pageName,
         timestamp |-> DateOf(listed[i].timestamp)]]

\* provider.backup(data, metadata) for document d.  uploaded: the request,
\* or localStorage.setItem, succeeded.  LocalBackupProvider.uploadFile
\* returns true also when setItem threw.
RemoteStore(d, src, now, uploaded) ==
    /\ Len(rmStores) < MaxStores
    /\ LET metadata == StoreMetadata(d, src, now)
           key == generateBackupKey(rmVariant, rmSettings, metadata)
           obj == [at |-> StorageKey(rmVariant, key),
                   payload |-> [doc |-> d, stamp |-> now],
                   metadata |-> metadata,
                   lastmod |-> now]
       IN  /\ rmObjects' = IF uploaded THEN PutObject(rmObjects, obj)
                           ELSE rmObjects
           /\ rmStores' = Append(rmStores,
                             [doc |-> d, metadata |-> metadata, key |-> key,
                              returned |-> (uploaded \/ rmVariant = "local")])
    /\ UNCHANGED <<rmVariant, rmSettings, rmListed, rmRestored, rmPulled>>

\* provider.listBackups(); "after" counts the backup calls made before it
RemoteList ==
    /\ rmListed' = [done |-> TRUE, after |-> Len(rmStores),
                    backups |-> listFiles(rmVariant, rmSettings, rmObjects)]
    /\ rmListed' # rmListed
    /\ UNCHANGED <<rmVariant, rmSettings, rmObjects, rmStores, rmRestored,
                   rmPulled>>

\* provider.restoreBackup(timestamp) with the timestamp of a listed entry
RemoteRestore(i) ==
    /\ i \in DOMAIN rmListed.backups
    /\ rmRestored' =
          [asked |-> rmListed.backups[i], after |-> Len(rmStores)] @@
          restoreBackup(rmVariant, rmSettings, rmObjects,
                        rmListed.backups[i].timestamp)
    /\ rmRestored' # rmRestored
    /\ UNCHANGED <<rmVariant, rmSettings, rmObjects, rmStores, rmListed,
                   rmPulled>>

\* diffWithRemote matched an entry of the list for document d and
\* pullFromRemote(provider, pageName, filePath) runs: it lists, takes the
\* latest entry of the page, restores by its timestamp and updates the page;
\* "under" keeps what is stored under the matched entry at that moment
RemotePull(d) ==
    LET filePath == getPageFilePath(RemotePage(d), RemoteGraph)
        listed == listFiles(rmVariant, rmSettings, rmObjects)
        backups == AsBackups(listed)
        matching == Matching(backups, filePath)
        pageBackups == PageBackups(backups, <<d>>, filePath)
    IN  /\ matching # {}
        /\ \E m \in SortedFirst(backups, matching) :
              IF pageBackups = {}
              THEN rmPulled' = [doc |-> d, matched |-> listed[m],
                                under |-> PayloadAt(rmObjects, listed[m].at),
                                latest |-> listed[m], found |-> FALSE,
                                written |-> NoPayload]
              ELSE \E l \in SortedFirst(backups, pageBackups) :
                      LET r == restoreBackup(rmVariant, rmSettings, rmObjects,
                                             listed[l].timestamp)
                      IN  rmPulled' = [doc |-> d, matched |-> listed[m],
                                       under |-> PayloadAt(rmObjects, listed[m].at),
                                       latest |-> listed[l], found |-> TRUE,
                                       written |-> r.payload]
        /\ rmPulled' # rmPulled
        /\ UNCHANGED <<rmVariant, rmSettings, rmObjects, rmStores, rmListed,
                       rmRestored>>

RemoteStores ==
    \E d \in RemoteDocs, src \in StoreSources, now \in Stamps,
       uploaded \in BOOLEAN : RemoteStore(d, src, now, uploaded)
RemoteRestores == \E i \in DOMAIN rmListed.backups : RemoteRestore(i)
RemotePulls == \E d \in RemoteDocs : RemotePull(d)

NoEntry ==
    [timestamp |-> <<>>, graphName |-> <<>>, pageName |-> <<>>,
     filePath |-> <<>>, at |-> <<>>]
NotListed == [done |-> FALSE, after |-> 0, backups |-> <<>>]
NotRestored ==
    [asked |-> NoEntry, after |-> 0, key |-> <<>>, payload |-> NoPayload]
NotPulled == [doc |-> "none", matched |-> NoEntry, under |-> NoPayload,
              latest |-> NoEntry, found |-> FALSE, written |-> NoPayload]

RemotePrefixes == {<<"p">>, <<"p", "/">>}

RemoteQuiet ==
    /\ rmVariant = "s3"
    /\ rmSettings = [s3_pathPrefix |-> <<>>, webdav_pathPrefix |-> <<>>]
    /\ rmObjects = <<>>
    /\ rmStores = <<>>
    /\ rmListed = NotListed
    /\ rmRestored = NotRestored
    /\ rmPulled = NotPulled

\* an initialized provider of one of the classes and an empty remote
InitRemote ==
    /\ rmVariant \in RemoteVariants
    /\ \E p \in RemotePrefixes :
          rmSettings = [s3_pathPrefix |-> p, webdav_pathPrefix |-> p]
    /\ rmObjects = <<>>
    /\ rmStores = <<>>
    /\ rmListed = NotListed
    /\ rmRestored = NotRestored
    /\ rmPulled = NotPulled

(***************************************************************************)
(* Sync passes one after the other on one provider: performInitialSync     *)
(* lists the provider and reconciles every page; every store, fetch and    *)
(* update succeeds and nobody edits a page.                                *)
(***************************************************************************)
MaxPasses == 2

FixPageLists == {<<>>, <<"a">>, <<"b">>, <<"a", "b">>}
FixTimes == {TLocal - 8000, TLocal, TLocal + 8000}

\* the remote holds what earlier backup() calls left there
FixSeed ==
    /\ fxPass = 0
    /\ fxPc = "idle"
    /\ \E d \in RemoteDocs, src \in StoreSources, now \in Stamps :
          RemoteStore(d, src, now, TRUE)
    /\ UNCHANGED fixVars

\* performInitialSync up to the loop over the pages: the list of every
\* provider that isProviderEnabled accepts is stored in _cachedBackups
FixPerformInitialSync ==
    /\ fxPc = "idle"
    /\ fxPass < MaxPasses
    /\ fxPass' = fxPass + 1
    /\ fxPc' = "page"
    /\ fxIdx' = 1
    /\ fxCache' = IF isProviderEnabled(rmVariant)
                  THEN Cached(AsBackups(listFiles(rmVariant, rmSettings, rmObjects)))
                  ELSE fxCache
    /\ UNCHANGED <<fxPages, fxLocal, fxLog, remoteVars>>

\* syncPage(page.name) for the next page, to its end
FixSyncPage ==
    /\ fxPc = "page"
    /\ fxIdx <= Len(fxPages)
    /\ fxIdx' = fxIdx + 1
    /\ LET d == fxPages[fxIdx]
           page == RemotePage(d)
           filePath == getPageFilePath(page, RemoteGraph)
           localUpdatedAt == Num(fxLocal[d])
           backups == Consulted(fxCache,
                         AsBackups(listFiles(rmVariant, rmSettings, rmObjects)))
           m == Matching(backups, filePath)
           note(decision, act) ==
               fxLog' = Append(fxLog, [pass |-> fxPass, doc |-> d,
                                       decision |-> decision, act |-> act])
       IN  IF ~isProviderEnabled(rmVariant)
           THEN note("none", "none") /\ UNCHANGED <<fxLocal, rmObjects>>
           ELSE \E i \in IF m = {} THEN {0} ELSE SortedFirst(backups, m) :
                  LET decision == IF i = 0 THEN "remote-missing"
                                  ELSE Compare(backups[i].timestamp, localUpdatedAt)
                  IN  CASE decision \in {"local-newer", "remote-missing"} ->
                             \E now \in Stamps :
                                LET metadata == pushMetadata(page, RemoteGraph, now, 0)
                                    key == generateBackupKey(rmVariant, rmSettings,
                                                             metadata)
                                IN  /\ rmObjects' = PutObject(rmObjects,
                                          [at |-> StorageKey(rmVariant, key),
                                           payload |-> [doc |-> d, stamp |-> now],
                                           metadata |-> metadata,
                                           lastmod |-> now])
                                    /\ note(decision, "push")
                                    /\ UNCHANGED fxLocal
                        [] decision = "remote-newer" ->
                             \E now \in Stamps :
                                /\ fxLocal' = [fxLocal EXCEPT ![d] = DateOf(now).ms]
                                /\ note(decision, "pull")
                                /\ UNCHANGED rmObjects
                        [] OTHER ->
                             note(decision, "none") /\ UNCHANGED <<fxLocal, rmObjects>>
    /\ UNCHANGED <<fxPass, fxPc, fxPages, fxCache>>
    /\ UNCHANGED <<rmVariant, rmSettings, rmStores, rmListed, rmRestored, rmPulled>>

\* the loop over the pages has ended and performInitialSync returns
FixPassDone ==
    /\ fxPc = "page"
    /\ fxIdx > Len(fxPages)
    /\ fxPc' = "idle"
    /\ UNCHANGED <<fxPass, fxPages, fxIdx, fxCache, fxLocal, fxLog, remoteVars>>

FixQuiet ==
    /\ fxPass = 0
    /\ fxPc = "off"
    /\ fxPages = <<>>
    /\ fxIdx = 1
    /\ fxCache = NoCache
    /\ fxLocal = [d \in RemoteDocs |-> TLocal]
    /\ fxLog = <<>>

\* an enabled and initialized provider (for s3: bucket and keys are set),
\* the pages of the graph and their updatedAt
InitFixed ==
    /\ InitRemote
    /\ syProviders = {rmVariant}
    /\ syS3Settings = (rmVariant = "s3")
    /\ syPage = FALSE
    /\ syPageName = <<>>
    /\ syFilePath = <<>>
    /\ syPc = "off"
    /\ syIdx = 1
    /\ syDecision = [p \in ProviderNames |-> "none"]
    /\ syActs = [p \in ProviderNames |-> <<>>]
    /\ syLatest = NoBackup
    /\ fxPass = 0
    /\ fxPc = "idle"
    /\ fxPages \in FixPageLists
    /\ fxIdx = 1
    /\ fxCache = NoCache
    /\ fxLocal \in [RemoteDocs -> FixTimes]
    /\ fxLog = <<>>

\* NEWSECTIONS
\* the components that are not part of a specification stay as constructed
LateQuiet ==
    StartQuiet /\ ChangesQuiet /\ AssetsQuiet /\ TagQuiet /\ EnabledQuiet
    /\ FlagQuiet
    /\ OverlapQuiet
    /\ RemoteQuiet
    /\ FixQuiet

BaseQuiet ==
    /\ InitCoalescer /\ InitService({}, {})
    /\ DiffQuiet /\ SyncQuiet /\ PassQuiet /\ SetQuiet /\ KeyQuiet

NextCoalescer ==
    \/ OnChanged /\ UNCHANGED exceptCoal
    \/ TimerFires /\ UNCHANGED exceptCoal
    \/ PassCompletes /\ UNCHANGED exceptCoal
    \/ Unload /\ UNCHANGED exceptCoal
    \/ FlushCompletes /\ UNCHANGED exceptCoal
    \/ Tick /\ UNCHANGED exceptCoal

InitSpecCoalescer ==
    /\ InitCoalescer /\ InitService({}, {})
    /\ DiffQuiet /\ SyncQuiet /\ PassQuiet /\ SetQuiet /\ KeyQuiet /\ LateQuiet

SpecCoalescer == InitSpecCoalescer /\ [][NextCoalescer]_vars

\* the host keeps its clock and timers running and every started invocation of
\* the processing callback settles
FairCoalescer ==
    /\ SpecCoalescer
    /\ WF_coalVars(Tick)
    /\ WF_coalVars(TimerFires)
    /\ WF_coalVars(PassCompletes)
    /\ WF_coalVars(FlushCompletes)

(***************************************************************************)
(* The backup service: one backupPage and one backupAllPages, over every   *)
(* provider set initialize() can leave.                                    *)
(***************************************************************************)
InitDispatch ==
    \E E \in SUBSET ProviderNames : \E P \in SUBSET E : InitService(E, P)

NextDispatch ==
    \/ BackupPageCall /\ UNCHANGED <<svcVars, frVars, exceptDisp>>
    \/ BackupBuilds /\ UNCHANGED <<svcVars, frVars, exceptDisp>>
    \/ StoreSettles /\ UNCHANGED <<svcVars, frVars, exceptDisp>>
    \/ BackupAggregate /\ UNCHANGED <<svcVars, frVars, exceptDisp>>
    \/ FullRunCall /\ UNCHANGED <<svcVars, bpVars, exceptDisp>>
    \/ FullRunLists /\ UNCHANGED <<svcVars, bpVars, exceptDisp>>
    \/ FullRunPages /\ UNCHANGED <<svcVars, bpVars, exceptDisp>>
    \/ FullRunStores /\ UNCHANGED <<svcVars, bpVars, exceptDisp>>

InitSpecDispatch ==
    /\ InitCoalescer /\ InitDispatch
    /\ DiffQuiet /\ SyncQuiet /\ PassQuiet /\ SetQuiet /\ KeyQuiet /\ LateQuiet

SpecDispatch == InitSpecDispatch /\ [][NextDispatch]_vars

(***************************************************************************)
(* diffWithRemote over bounded backup lists, paths and dates.              *)
(***************************************************************************)
NextDiff ==
    \/ DiffLookup /\ UNCHANGED <<syncVars, exceptSync>>
    \/ DiffDecide /\ UNCHANGED <<syncVars, exceptSync>>

InitSpecDiff ==
    InitCoalescer /\ InitService({}, {}) /\ InitDiff /\ SyncQuiet /\ PassQuiet /\ SetQuiet
    /\ KeyQuiet /\ LateQuiet

SpecDiff == InitSpecDiff /\ [][NextDiff]_vars

(***************************************************************************)
(* syncPage of one page against the providers of the service.              *)
(***************************************************************************)
NextSync ==
    \/ SyncPageCall /\ UNCHANGED exceptSync
    \/ SyncLoop /\ UNCHANGED exceptSync
    \/ DiffLookup /\ UNCHANGED <<syncVars, exceptSync>>
    \/ DiffDecide /\ UNCHANGED <<syncVars, exceptSync>>
    \/ SyncSwitch /\ UNCHANGED exceptSync
    \/ pushToRemote /\ UNCHANGED exceptSync
    \/ pullFromRemoteLists /\ UNCHANGED exceptSync
    \/ pullFromRemoteFetches /\ UNCHANGED exceptSync
    \/ pullFromRemoteUpdate /\ UNCHANGED exceptSync

InitSpecSync ==
    InitCoalescer /\ InitService({}, {}) /\ InitSync /\ PassQuiet /\ SetQuiet
    /\ KeyQuiet /\ LateQuiet

SpecSync == InitSpecSync /\ [][NextSync]_vars

(***************************************************************************)
(* One sync pass: performInitialSync over the pages of the graph.          *)
(***************************************************************************)
NextPass ==
    \/ PerformInitialSync /\ UNCHANGED exceptPass
    \/ PassGetsPages /\ UNCHANGED exceptPass
    \/ PassListLoop /\ UNCHANGED exceptPass
    \/ PassLists /\ UNCHANGED exceptPass
    \/ PassPages /\ UNCHANGED exceptPass
    \/ PassPageDone /\ UNCHANGED exceptPass
    \/ SyncPageCall /\ UNCHANGED exceptSync
    \/ SyncLoop /\ UNCHANGED exceptSync
    \/ DiffLookup /\ UNCHANGED <<syncVars, exceptSync>>
    \/ DiffDecide /\ UNCHANGED <<syncVars, exceptSync>>
    \/ SyncSwitch /\ UNCHANGED exceptSync
    \/ pushToRemote /\ UNCHANGED exceptSync
    \/ PassPullLists /\ UNCHANGED exceptPass
    \/ PassPullFetches /\ UNCHANGED exceptPass
    \/ pullFromRemoteUpdate /\ UNCHANGED exceptSync

InitSpecPass ==
    InitCoalescer /\ InitService({}, {}) /\ InitPass /\ SetQuiet /\ KeyQuiet /\ LateQuiet

SpecPass == InitSpecPass /\ [][NextPass]_vars

(***************************************************************************)
(* One change of the settings.                                             *)
(***************************************************************************)
NextSettings ==
    \/ SettingsChange /\ UNCHANGED exceptSet
    \/ BsInitSettles /\ UNCHANGED exceptSet
    \/ SsInitSettles /\ UNCHANGED exceptSet

InitSpecSettings == InitCoalescer /\ InitSettings /\ PassQuiet /\ KeyQuiet /\ LateQuiet

SpecSettings == InitSpecSettings /\ [][NextSettings]_vars

(***************************************************************************)
(* Key derivation on the backup path, on the sync path and for metadata    *)
(* handed in by a caller.                                                  *)
(***************************************************************************)
NextKey ==
    \/ BackupPathBuilds /\ UNCHANGED exceptKey
    \/ SyncPathBuilds /\ UNCHANGED exceptKey
    \/ S3Backup /\ UNCHANGED exceptKey
    \/ WebDAVBackup /\ UNCHANGED exceptKey
    \/ LocalBackup /\ UNCHANGED exceptKey
    \/ S3OldBackup /\ UNCHANGED exceptKey

InitSpecKey ==
    /\ InitCoalescer /\ InitService({}, {})
    /\ DiffQuiet /\ SyncQuiet /\ PassQuiet /\ SetQuiet /\ InitKey /\ LateQuiet

SpecKey == InitSpecKey /\ [][NextKey]_vars

(***************************************************************************)
(* Startup of one service.                                                 *)
(***************************************************************************)
exceptStart ==
    <<coalVars, dispVars, diffVars, syncVars, passVars, setVars, keyVars,
      changesVars, assetVars, tagVars,
      enabledVars, flagVars, overlapVars,
    remoteVars,
    fixVars>>

NextStart ==
    \/ BackupServiceInitializes /\ UNCHANGED exceptStart
    \/ SyncServiceInitializes /\ UNCHANGED exceptStart
    \/ HelperInitializes /\ UNCHANGED exceptStart
    \/ FirstStore /\ UNCHANGED exceptStart

InitSpecStart ==
    /\ BaseQuiet /\ InitStart /\ ChangesQuiet /\ AssetsQuiet /\ TagQuiet
    /\ EnabledQuiet
    /\ FlagQuiet
    /\ OverlapQuiet
    /\ RemoteQuiet
    /\ FixQuiet

SpecStart == InitSpecStart /\ [][NextStart]_vars

(***************************************************************************)
(* processChanges over one snapshot.                                       *)
(***************************************************************************)
exceptChanges ==
    <<coalVars, svcVars, frVars, diffVars, syncVars, passVars, setVars,
      keyVars,
      startVars, assetVars, tagVars,
      enabledVars, flagVars, overlapVars,
    remoteVars,
    fixVars>>

NextChanges ==
    \/ ProcessChangesCall /\ UNCHANGED exceptChanges
    \/ ScanBlocks /\ UNCHANGED exceptChanges
    \/ ProcessChangesNext /\ UNCHANGED exceptChanges
    \/ ProcessChangesBuilds /\ UNCHANGED exceptChanges
    \/ StoreSettles /\ UNCHANGED <<changesVars, exceptChanges>>
    \/ BackupAggregate /\ UNCHANGED <<changesVars, exceptChanges>>

InitSpecChanges ==
    /\ InitCoalescer /\ InitChanges
    /\ DiffQuiet /\ SyncQuiet /\ PassQuiet /\ SetQuiet /\ KeyQuiet /\ StartQuiet
    /\ AssetsQuiet /\ TagQuiet /\ EnabledQuiet
    /\ FlagQuiet
    /\ OverlapQuiet
    /\ RemoteQuiet
    /\ FixQuiet

SpecChanges == InitSpecChanges /\ [][NextChanges]_vars

(***************************************************************************)
(* Two backupAllPages calls over the same graph.                           *)
(***************************************************************************)
exceptAssets ==
    <<coalVars, dispVars, diffVars, syncVars, passVars, setVars, keyVars,
      startVars, changesVars, tagVars,
      enabledVars, flagVars, overlapVars,
    remoteVars,
    fixVars>>

NextAssets ==
    \/ FullRunClearsSet /\ UNCHANGED exceptAssets
    \/ FullRunAssets /\ UNCHANGED exceptAssets

InitSpecAssets ==
    /\ BaseQuiet /\ StartQuiet /\ ChangesQuiet /\ InitAssets /\ TagQuiet
    /\ EnabledQuiet
    /\ FlagQuiet
    /\ OverlapQuiet
    /\ RemoteQuiet
    /\ FixQuiet

SpecAssets == InitSpecAssets /\ [][NextAssets]_vars

(***************************************************************************)
(* One page on the three backup paths.                                     *)
(***************************************************************************)
exceptTag ==
    <<coalVars, dispVars, diffVars, syncVars, passVars, setVars, keyVars,
      startVars, changesVars, assetVars,
      enabledVars, flagVars, overlapVars,
    remoteVars,
    fixVars>>

NextTag ==
    \/ TaggedFullRun /\ UNCHANGED exceptTag
    \/ TaggedAuto /\ UNCHANGED exceptTag
    \/ TaggedManual /\ UNCHANGED exceptTag

InitSpecTag ==
    /\ BaseQuiet /\ StartQuiet /\ ChangesQuiet /\ AssetsQuiet /\ InitTag
    /\ EnabledQuiet
    /\ FlagQuiet
    /\ OverlapQuiet
    /\ RemoteQuiet
    /\ FixQuiet

SpecTag == InitSpecTag /\ [][NextTag]_vars

(***************************************************************************)
(* The two functions of core/settings.ts on every combination of toggles   *)
(* and fields.                                                             *)
(***************************************************************************)
exceptEnabled ==
    <<coalVars, dispVars, diffVars, syncVars, passVars, setVars, keyVars,
      startVars, changesVars, assetVars,
      tagVars, flagVars, overlapVars,
    remoteVars,
    fixVars>>

NextEnabled ==
    \/ GetEnabledProvidersCall /\ UNCHANGED exceptEnabled
    \/ ValidateProviderConfigCalls /\ UNCHANGED exceptEnabled

InitSpecEnabled ==
    /\ BaseQuiet /\ StartQuiet /\ ChangesQuiet /\ AssetsQuiet /\ TagQuiet
    /\ InitEnabled
    /\ FlagQuiet
    /\ OverlapQuiet
    /\ RemoteQuiet
    /\ FixQuiet

SpecEnabled == InitSpecEnabled /\ [][NextEnabled]_vars

(***************************************************************************)
(* The isChanged-flag coalescer of core/events.ts.                         *)
(***************************************************************************)
exceptFlag ==
    <<coalVars, dispVars, diffVars, syncVars, passVars, setVars, keyVars,
      startVars, changesVars, assetVars,
      tagVars, enabledVars, overlapVars,
    remoteVars,
    fixVars>>

NextFlag ==
    \/ FlagOnChanged /\ UNCHANGED exceptFlag
    \/ FlagTimerFires /\ UNCHANGED exceptFlag
    \/ FlagBeforeUnload /\ UNCHANGED exceptFlag
    \/ FlagSettles /\ UNCHANGED exceptFlag

InitSpecFlag ==
    /\ BaseQuiet /\ StartQuiet /\ ChangesQuiet /\ AssetsQuiet /\ TagQuiet
    /\ EnabledQuiet /\ InitFlag
    /\ OverlapQuiet
    /\ RemoteQuiet
    /\ FixQuiet

SpecFlag == InitSpecFlag /\ [][NextFlag]_vars

(***************************************************************************)
(* Settings changes whose updateSettings calls overlap.                    *)
(***************************************************************************)
exceptOverlap ==
    <<coalVars, dispVars, diffVars, syncVars, passVars, setVars, keyVars,
      startVars, changesVars, assetVars,
      tagVars, enabledVars, flagVars,
    remoteVars,
    fixVars>>

NextOverlap ==
    \/ OverlapSettingsChanges /\ UNCHANGED exceptOverlap
    \/ BackupInitializeSettling /\ UNCHANGED exceptOverlap
    \/ SyncInitializeSettling /\ UNCHANGED exceptOverlap

InitSpecOverlap ==
    /\ BaseQuiet /\ StartQuiet /\ ChangesQuiet /\ AssetsQuiet /\ TagQuiet
    /\ EnabledQuiet /\ FlagQuiet /\ InitOverlap
    /\ RemoteQuiet
    /\ FixQuiet

SpecOverlap == InitSpecOverlap /\ [][NextOverlap]_vars

(***************************************************************************)
(* Stores, listings, restores and pulls on one provider.                   *)
(***************************************************************************)
exceptRemote ==
    <<coalVars, dispVars, diffVars, syncVars, passVars, setVars, keyVars,
      startVars, changesVars, assetVars, tagVars, enabledVars, flagVars,
      overlapVars,
    fixVars>>

NextRemote ==
    \/ RemoteStores /\ UNCHANGED exceptRemote
    \/ RemoteList /\ UNCHANGED exceptRemote
    \/ RemoteRestores /\ UNCHANGED exceptRemote
    \/ RemotePulls /\ UNCHANGED exceptRemote

InitSpecRemote ==
    /\ BaseQuiet /\ StartQuiet /\ ChangesQuiet /\ AssetsQuiet /\ TagQuiet
    /\ EnabledQuiet /\ FlagQuiet /\ OverlapQuiet /\ InitRemote
    /\ FixQuiet

SpecRemote == InitSpecRemote /\ [][NextRemote]_vars

(***************************************************************************)
(* Two sync passes on one provider.                                        *)
(***************************************************************************)
exceptFixed ==
    <<coalVars, dispVars, diffVars, syncVars, passVars, setVars, keyVars,
      startVars, changesVars, assetVars, tagVars, enabledVars, flagVars,
      overlapVars>>

NextFixed ==
    \/ FixSeed /\ UNCHANGED exceptFixed
    \/ FixPerformInitialSync /\ UNCHANGED exceptFixed
    \/ FixSyncPage /\ UNCHANGED exceptFixed
    \/ FixPassDone /\ UNCHANGED exceptFixed

InitSpecFixed ==
    /\ InitCoalescer /\ InitService({}, {})
    /\ DiffQuiet /\ PassQuiet /\ SetQuiet /\ KeyQuiet
    /\ StartQuiet /\ ChangesQuiet /\ AssetsQuiet /\ TagQuiet
    /\ EnabledQuiet /\ FlagQuiet /\ OverlapQuiet /\ InitFixed

SpecFixed == InitSpecFixed /\ [][NextFixed]_vars

(***************************************************************************)
(* Properties of the coalescer.                                            *)
(***************************************************************************)
Passes == {i \in DOMAIN calls : calls[i].by = "pass"}
Flushes == {i \in DOMAIN calls : calls[i].by = "flush"}
Events == 1..MaxEvents
Arrived(e) == e \in DOMAIN evLog
IsPrefix(s, t) == Len(s) <= Len(t) /\ \A i \in DOMAIN s : s[i] = t[i]

\* C1: at most one invocation of backupService.processChanges is in flight in
\* any reachable state, whatever the interleaving of change events, timer
\* fires, completions, the post-pass re-arm and the shutdown flush.
C1_AtMostOneInFlight == Cardinality(InFlight) <= 1

\* invocations started after event e arrived
LaterCalls(e) == {i \in DOMAIN calls : i > evLog[e].callsBefore}
DeliveredLater(e) ==
    Arrived(e) /\ \E i \in LaterCalls(e) : e \in Range(calls[i].args)
ArrivedDuringPass(e) == Arrived(e) /\ evLog[e].duringPass

C2_TimerFireIsNoOp ==
    (isProcessing /\ step' = "timer") =>
        /\ changeBuffer' = changeBuffer
        /\ isProcessing' = isProcessing
        /\ calls' = calls

C2_BufferKeptDuringPass ==
    (isProcessing /\ isProcessing') => IsPrefix(changeBuffer, changeBuffer')

C2_RearmedOnCompletion ==
    (step' = "passDone" /\ Len(changeBuffer) > 0) =>
        /\ changeBuffer' = changeBuffer
        /\ ~isProcessing'
        /\ Pending(pendingTimers') = {timer'}
        /\ pendingTimers'[timer'] = Delay

C2_NextPassHasIt ==
    \A e \in DOMAIN evLog : evLog[e].duringPass =>
        LET later == {i \in LaterCalls(e) : calls[i].by = "pass"} IN
        \A i \in later : (\A j \in later : i <= j) => e \in Range(calls[i].args)

\* C2: a change event delivered while a pass is in flight is not dropped: it
\* stays in the buffer (a timer fire during the pass changes neither the buffer
\* nor isProcessing and starts nothing), the completion of the pass re-arms the
\* timer, the first pass started afterwards has the event in its snapshot, and
\* the event does reach the callback in an invocation started after it arrived.
C2_NotDropped ==
    /\ [][C2_TimerFireIsNoOp /\ C2_BufferKeptDuringPass /\ C2_RearmedOnCompletion]_vars
    /\ []C2_NextPassHasIt
    /\ \A e \in Events : ArrivedDuringPass(e) ~> DeliveredLater(e)

\* an event arrived during a pass, a timer fired meanwhile, and a later pass
\* took the event in its snapshot
C2_Witness ==
    \E e \in DOMAIN evLog :
        /\ evLog[e].duringPass
        /\ \E i \in LaterCalls(e) : calls[i].by = "pass" /\ e \in Range(calls[i].args)
        /\ calls[evLog[e].callsBefore].done

InPass(e, i) == e \in Range(calls[i].args)

C3_Safe ==
    \* a pass starts only once the window has elapsed since the last event
    /\ \A i \in Passes : calls[i].idle >= Delay
    \* no event is in two passes
    /\ \A e \in DOMAIN evLog : Cardinality({i \in Passes : InPass(e, i)}) <= 1
    \* a pass never separates two events less than the window apart
    /\ \A i \in Passes : \A e \in DOMAIN evLog :
           (e > 1 /\ InPass(e - 1, i) /\ ~InPass(e, i)) => evLog[e].gap >= Delay

\* C3: for a burst of change events less than quiescenceWindow apart (no
\* shutdown), exactly one pass is started: the events of the burst are never
\* split over two passes nor delivered twice by passes, a pass does start, and
\* it starts only when quiescenceWindow has elapsed since the last event.
C3_BurstOnePass ==
    /\ []C3_Safe
    /\ \A e \in Events :
          (Arrived(e) /\ unloadPc = "idle") ~>
              ((\E i \in Passes : InPass(e, i)) \/ unloadPc # "idle")

\* a pass took a burst of two events that arrived one tick apart
C3_Witness ==
    /\ unloadPc = "idle"
    /\ \E i \in Passes : \E e \in DOMAIN evLog :
          /\ e > 1 /\ InPass(e - 1, i) /\ InPass(e, i)
          /\ evLog[e].gap > 0 /\ evLog[e].gap < Delay
          /\ ~evLog[e].duringPass /\ ~evLog[e - 1].duringPass

C4_Inv ==
    /\ Cardinality(Flushes) <= 1
    /\ unloadPc = "flushing" => \E i \in Flushes : i \in InFlight
    /\ unloadPc = "done" => \A i \in Flushes : calls[i].done

C4_Act ==
    (step' = "unload" /\ Len(changeBuffer) > 0 /\ ~isProcessing) =>
        /\ Pending(pendingTimers') = {}
        /\ timer' = NoTimer
        /\ Len(calls') = Len(calls) + 1
        /\ calls'[Len(calls')].by = "flush"
        /\ calls'[Len(calls')].args = changeBuffer
        /\ \A i \in DOMAIN calls : calls'[i] = calls[i]
        /\ unloadPc' = "flushing"

\* C4: when the shutdown handler runs with a non-empty buffer and no pass in
\* flight, it cancels the armed timer, invokes the processing callback exactly
\* once with every buffered event, and does not return before that invocation
\* has completed.
C4_ShutdownFlush == []C4_Inv /\ [][C4_Act]_vars

\* the handler has returned after a flush of two buffered events
C4_Witness ==
    /\ unloadPc = "done"
    /\ \E i \in Flushes : calls[i].done /\ Len(calls[i].args) >= 2

(***************************************************************************)
(* Properties of the dispatch.                                             *)
(***************************************************************************)
Dispatched == bpBuild = "artifact"

\* C5: in backupPage, store is invoked exactly once on every active provider
\* whatever the others do (a false return or an exception of one neither
\* cancels nor skips a sibling), every invocation is started before any is
\* awaited, and the aggregate is computed only after all have settled.
C5_ParallelDispatch ==
    \* never more than once, and only on active providers
    /\ \A p \in ProviderNames : bpCalls[p] <= 1 /\ (p \notin providers => bpCalls[p] = 0)
    \* started together: none has settled or is in flight while a sibling waits
    /\ \A p, q \in providers : bpStore[p] # "none" => bpStore[q] # "none"
    /\ Dispatched => \A p \in providers : bpCalls[p] = 1
    \* the aggregate exists only once every invocation has settled
    /\ (Dispatched /\ bpPc = "done") => \A p \in providers : bpStore[p] \in Settled

\* three providers, one returned false and one threw, the third still stored
C5_Witness ==
    /\ bpPc = "done"
    /\ providers = ProviderNames
    /\ bpStore["s3"] = "threw" /\ bpStore["webdav"] = "false" /\ bpStore["local"] = "true"
    /\ \A p \in providers : bpCalls[p] = 1

\* C6: dispatch reports successCount = number of providers whose store
\* returned true and totalCount = number of active providers; the result is
\* full success when successCount = totalCount, partial when
\* 0 < successCount < totalCount, failure otherwise; [true, false, true] gives
\* 2 of 3 and partial.
C6_Aggregation ==
    (Dispatched /\ bpPc = "done") =>
        /\ bpSuccessCount = Cardinality({p \in providers : bpStore[p] = "true"})
        /\ bpProviderCount = Cardinality(providers)
        /\ (bpNotice = "success") <=> (bpSuccessCount = bpProviderCount)
        /\ (bpNotice = "warning") <=>
               (0 < bpSuccessCount /\ bpSuccessCount < bpProviderCount)
        /\ (bpNotice = "error") <=>
               ~(bpSuccessCount = bpProviderCount) /\
               ~(0 < bpSuccessCount /\ bpSuccessCount < bpProviderCount)
        /\ (providers = ProviderNames /\ bpStore["s3"] = "true" /\
            bpStore["webdav"] = "false" /\ bpStore["local"] = "true") =>
               (bpSuccessCount = 2 /\ bpProviderCount = 3 /\ bpNotice = "warning")

\* outcomes [true, false, true] aggregated: 2 of 3, partial
C6_Witness ==
    /\ bpPc = "done"
    /\ providers = ProviderNames
    /\ bpStore["s3"] = "true" /\ bpStore["webdav"] = "false" /\ bpStore["local"] = "true"
    /\ bpSuccessCount = 2 /\ bpProviderCount = 3 /\ bpNotice = "warning"

\* C7: a dispatch in which no provider stored the artifact, the dispatch over
\* an empty provider set included, is a full failure: backupPage reports an
\* error and backupAllPages does not count the document as succeeded.
C7_NothingStoredIsFailure ==
    /\ (Dispatched /\ bpPc = "done" /\ bpSuccessCount = 0) => bpNotice = "error"
    /\ \A i \in DOMAIN frLog :
           (frLog[i].built /\ frLog[i].stored = 0) => frLog[i].kind # "success"

(***************************************************************************)
(* Properties of diffWithRemote.                                           *)
(***************************************************************************)
DiffDone == dfPc = "done"
DiffList == Consulted(dfCache, dfRemote)
DiffThrew == LookupThrows(dfCache, dfInit)
RemoteStamp == DiffList[dfMatched].timestamp
ValidPair == dfMatched # 0 /\ RemoteStamp.kind = "iso" /\ ~dfLocal.nan
Distance ==
    IF dfLocal.ms >= RemoteStamp.ms
    THEN dfLocal.ms - RemoteStamp.ms ELSE RemoteStamp.ms - dfLocal.ms

\* C8: diffWithRemote returns RemoteMissing when no entry of the backup list
\* matches the path; otherwise, for the matched entry (the latest one when
\* every matching timestamp is well-formed) and well-formed dates, Same when
\* |local - remote| < 5000 ms, LocalNewer when not Same and local > remote,
\* RemoteNewer otherwise; exactly 5000 ms is not Same; remote = T+3000 is
\* Same, T+8000 RemoteNewer, T-8000 LocalNewer.
C8_Decision ==
    (DiffDone /\ ~DiffThrew) =>
        /\ (dfResult = "remote-missing") <=>
              ~(\E i \in DOMAIN DiffList :
                   /\ DiffList[i].filePath # <<>>
                   /\ (DiffList[i].filePath = dfPath \/
                       EndsWith(DiffList[i].filePath, dfPath)))
        /\ ValidPair =>
              /\ (\A i \in Matching(DiffList, dfPath) :
                     DiffList[i].timestamp.kind = "iso") =>
                  (\A i \in Matching(DiffList, dfPath) :
                     DiffList[i].timestamp.ms <= RemoteStamp.ms)
              /\ Distance < 5000 => dfResult = "same"
              /\ (Distance >= 5000 /\ dfLocal.ms > RemoteStamp.ms) =>
                     dfResult = "local-newer"
              /\ (Distance >= 5000 /\ dfLocal.ms < RemoteStamp.ms) =>
                     dfResult = "remote-newer"
              /\ (dfLocal.ms = TLocal /\ RemoteStamp.ms = TLocal + 3000) =>
                     dfResult = "same"
              /\ (dfLocal.ms = TLocal /\ RemoteStamp.ms = TLocal + 8000) =>
                     dfResult = "remote-newer"
              /\ (dfLocal.ms = TLocal /\ RemoteStamp.ms = TLocal - 8000) =>
                     dfResult = "local-newer"
              /\ (dfLocal.ms = TLocal /\ RemoteStamp.ms = TLocal + 5000) =>
                     dfResult = "remote-newer"
              /\ (dfLocal.ms = TLocal /\ RemoteStamp.ms = TLocal - 5000) =>
                     dfResult = "local-newer"

\* the latest of two matching entries is 3000 ms ahead of local: Same
C8_Witness ==
    /\ DiffDone
    /\ Cardinality(Matching(DiffList, dfPath)) = 2
    /\ ValidPair
    /\ dfLocal.ms = TLocal /\ RemoteStamp.ms = TLocal + 3000
    /\ dfResult = "same"

\* C9: whenever the timestamps of a matched entry cannot be compared (the
\* remote or the local timestamp is not a valid date, or the lookup throws),
\* the decision is LocalNewer.
C9_MalformedIsLocalNewer ==
    DiffDone =>
        /\ DiffThrew => dfResult = "local-newer"
        /\ (~DiffThrew /\ dfMatched # 0 /\
            (RemoteStamp.kind = "bad" \/ dfLocal.nan)) => dfResult = "local-newer"

(***************************************************************************)
(* Properties of syncPage.                                                 *)
(***************************************************************************)
Count(acts, a) == Cardinality({i \in DOMAIN acts : acts[i] = a})

\* the loop has left the provider behind
Visited(p) ==
    /\ syDecision[p] # "none"
    /\ \/ syPc = "done"
       \/ syPc = "loop" /\ \E i \in 1..(syIdx - 1) :
             i <= Len(SyncEntries) /\ SyncEntries[i] = p

PassDone == psPc = "done"

\* the providers the pass reconciles pages against
Reconciled == {p \in syProviders : isProviderEnabled(p)}

\* listBackups() calls on provider p since the pass began
ListCalls(p) ==
    psLists[p]
    + Cardinality(UNION {{<<i, j>> : j \in {k \in DOMAIN psLog[i].acts[p] :
                                              psLog[i].acts[p][k] = "list"}} :
                         i \in DOMAIN psLog})
    + (IF psPc = "sync" THEN Count(syActs[p], "list") ELSE 0)

LogOf(d) == {i \in DOMAIN psLog : psLog[i].doc = d}

\* C13: in a pass over the tag page A, the page B with no remote backup and
\* the page C whose remote backup is newer than local beyond the tolerance,
\* with no call failing, A causes neither a store nor a local update, B
\* causes exactly one store, and C causes exactly one fetch followed by a
\* local update with what was fetched.
C13_SkipPushPull ==
    (/\ PassDone /\ ~psFault
     /\ Reconciled = {"s3"}
     /\ Range(psPages) = {"A", "B", "C"}
     /\ detectTagPage(DocName["A"])
     /\ \A i \in DOMAIN dfRemote : dfRemote[i].filePath # DocPath["B"]
     /\ \E i \in DOMAIN dfRemote :
           /\ dfRemote[i].filePath = DocPath["C"]
           /\ dfRemote[i].timestamp = IsoString(TLocal + 8000))
    => /\ \A i \in LogOf("A") :
              /\ Count(psLog[i].acts["s3"], "store") = 0
              /\ Count(psLog[i].acts["s3"], "update") = 0
       /\ \A i \in LogOf("B") :
              /\ Count(psLog[i].acts["s3"], "store") = 1
              /\ Count(psLog[i].acts["s3"], "update") = 0
       /\ \A i \in LogOf("C") :
              /\ Count(psLog[i].acts["s3"], "store") = 0
              /\ Count(psLog[i].acts["s3"], "fetch") = 1
              /\ Count(psLog[i].acts["s3"], "update") = 1
              /\ psLog[i].latest.filePath = DocPath["C"]
              /\ \A j, k \in DOMAIN psLog[i].acts["s3"] :
                    (psLog[i].acts["s3"][j] = "fetch" /\
                     psLog[i].acts["s3"][k] = "update") => j < k

\* C12: a provider's cached list is absent once updateSettings has completed
\* and once a sync pass has completed.
C12_CacheAbsentAfter ==
    /\ ssPc = "done" => dfCache = NoCache
    /\ PassDone => dfCache = NoCache

(***************************************************************************)
(* Properties of a settings change.                                        *)
(***************************************************************************)
UpdateDone == bsPc = "done" /\ ssPc = "done"

Changed(p) == usPrev[p] # settings[p]

\* C20: once updateSettings has completed in both services, every provider
\* enabled under the new settings whose enablement or credentials differ from
\* the previous settings has been initialized again with the new settings and
\* has no cached list, every provider no longer enabled is out of the maps,
\* and the providers whose settings did not change were not touched.
C20_ReinitChanged ==
    UpdateDone =>
        \A p \in ProviderNames :
            /\ ~settings[p].enabled => (p \notin providers /\ p \notin syProviders)
            /\ (settings[p].enabled /\ Changed(p)) =>
                  /\ bsInits[p] = 1 /\ ssInits[p] = 1
                  /\ p \in providers => bsInitWith[p] = settings[p].cred
                  /\ p \in syProviders => ssInitWith[p] = settings[p].cred
                  /\ p = "s3" => dfCache = NoCache
            /\ ~Changed(p) => (bsInits[p] = 0 /\ ssInits[p] = 0)

(***************************************************************************)
(* Further properties of the coalescer.                                    *)
(***************************************************************************)
Thrown == {i \in Passes : calls[i].done /\ calls[i].threw}

\* event e arrived after a pass that threw had completed
AfterThrow(e) ==
    /\ Arrived(e)
    /\ ~evLog[e].duringPass
    /\ \E i \in Thrown : i <= evLog[e].callsBefore

\* a pass started after e arrived, the window elapsed, has e in its snapshot
PassedLater(e) ==
    /\ Arrived(e)
    /\ \E i \in Passes :
          i > evLog[e].callsBefore /\ InPass(e, i) /\ calls[i].idle >= Delay

C14_CompletionStep ==
    (step' = "passDone") =>
        /\ ~isProcessing'
        /\ changeBuffer' = changeBuffer
        /\ Len(changeBuffer) > 0 =>
              (Pending(pendingTimers') = {timer'} /\ pendingTimers'[timer'] = Delay)

C14_Consumed ==
    \A i \in Thrown :
        /\ Range(calls[i].args) \cap Range(changeBuffer) = {}
        /\ \A j \in DOMAIN calls :
               j > i => Range(calls[j].args) \cap Range(calls[i].args) = {}

\* C14: when the processing callback throws during a pass, the flag
\* isProcessing is false once the pass has completed and the coalescer is in
\* the state a normal completion leaves, the events of the snapshot are not
\* put back in the buffer and reach no later invocation, and a change event
\* that arrives afterwards still gets its pass once the window has elapsed
\* (unless the shutdown handler runs first).
C14_ThrowIsContained ==
    /\ [][C14_CompletionStep]_vars
    /\ []C14_Consumed
    /\ \A e \in Events :
          (AfterThrow(e) /\ unloadPc = "idle") ~>
              (PassedLater(e) \/ unloadPc # "idle")

\* a pass threw, and an event that arrived afterwards was taken by a new pass
C14_Witness ==
    \E e \in DOMAIN evLog :
        /\ AfterThrow(e)
        /\ ~isProcessing
        /\ \E i \in Passes : i > evLog[e].callsBefore /\ InPass(e, i)

C15_EarlyFire ==
    (step' = "timer" /\ sinceEdit < Delay) =>
        /\ calls' = calls
        /\ changeBuffer' = changeBuffer
        /\ isProcessing' = isProcessing
        /\ Pending(pendingTimers') = {timer'}
        /\ pendingTimers'[timer'] = Delay

\* C15: when the timer fires and less than the window has elapsed since the
\* last edit, the callback is not invoked and a timer is armed again; no
\* pass starts in a state where less than the window has elapsed.
C15_NoEarlyPass ==
    /\ [][C15_EarlyFire]_vars
    /\ [](\A i \in Passes : calls[i].idle >= Delay)
    /\ [][(step' = "timer" /\ Len(calls') > Len(calls)) => sinceEdit >= Delay]_vars

\* the timer has fired early and was armed again, with events waiting
C15_Witness ==
    /\ step = "timer"
    /\ sinceEdit < Delay
    /\ Len(changeBuffer) > 0
    /\ ~isProcessing
    /\ timer # NoTimer /\ pendingTimers[timer] = Delay

\* C16: at most one debounce timer is pending in every reachable state, and
\* it is the one debounceData.timer refers to: arming always cancels first.
C16_OneTimer ==
    /\ Cardinality(Pending(pendingTimers)) <= 1
    /\ Pending(pendingTimers) # {} => Pending(pendingTimers) = {timer}

\* an event re-armed the timer while the timer of the previous event was
\* still pending
C16_Witness ==
    /\ step = "onChanged"
    /\ Len(evLog) >= 2
    /\ evLog[Len(evLog)].gap < Delay - EarlySlack
    /\ Cardinality(Pending(pendingTimers)) = 1

(***************************************************************************)
(* Properties of the storage keys.                                         *)
(***************************************************************************)
\* the provider classes that extend BaseBackupProvider
BaseVariants == {"s3", "webdav", "local"}

\* the prefix a provider variant puts before its keys
PrefixOf(v) ==
    CASE v \in {"s3", "s3old"} -> S3Prefix(kSettings)
      [] v = "webdav" -> WebDAVPrefix(kSettings)
      [] v = "local" -> <<>>

Keyed(src, v) == kKeys[src][v] # NoKey

\* the key of the example path in graph vault, after the prefix
ExampleKeyTail == Vault \o Slash \o ExamplePath

\* C17: whenever metadata.filePath is present, the key a provider derives is
\* its prefix followed by the path when the path begins with graphName + '/',
\* and by graphName + '/' + path otherwise, so it depends on the prefix, the
\* graph name and the path only, not on timestamp, size or page name; path
\* notes/journals/2024_01_01.md in graph vault under prefix p gives
\* p/vault/notes/journals/2024_01_01.md.
C17_PathKeyRule ==
    \A src \in Sources, v \in BaseVariants :
        LET m == kMetas[src] IN
        (Keyed(src, v) /\ m.filePath # <<>>) =>
            /\ kKeys[src][v] =
                  PrefixOf(v) \o
                    (IF IsPrefix(m.graphName \o Slash, m.filePath)
                     THEN m.filePath
                     ELSE m.graphName \o Slash \o m.filePath)
            /\ (m.filePath = ExamplePath /\ m.graphName = Vault) =>
                  /\ kKeys[src][v] = PrefixOf(v) \o ExampleKeyTail
                  /\ (v # "local" /\ kSettings.s3_pathPrefix = <<"p">>) =>
                        kKeys[src][v] = <<"p", "/">> \o ExampleKeyTail

\* the three providers have derived the key of the example path in graph vault
C17_Witness ==
    /\ kMetas["given"].filePath = ExamplePath
    /\ kMetas["given"].graphName = Vault
    /\ kMetas["given"].pageName # <<>>
    /\ \A v \in BaseVariants : Keyed("given", v)

\* C18: whenever metadata.filePath is absent, the key a provider derives is
\* graphName/backups/<timestamp with ':' and '.' replaced by '-'>.zip under
\* its prefix, whatever the page name is, the same for every provider.
C18_TimestampFallback ==
    \A src \in Sources, v \in BaseVariants :
        LET m == kMetas[src] IN
        (Keyed(src, v) /\ m.filePath = <<>>) =>
            kKeys[src][v] =
                PrefixOf(v) \o m.graphName \o Slash \o BackupsDir
                    \o replaceAll(m.timestamp, {":", "."}, "-") \o Zip

\* occurrences of the graph name as a path segment of a key
Segments(key, g) ==
    {i \in DOMAIN key :
        /\ IsPrefix(g \o Slash, SubSeq(key, i, Len(key)))
        /\ i = 1 \/ key[i - 1] = "/"}

\* C19: for every page and provider, the key derived from the metadata of
\* createPageBackup and the key derived from the metadata of pushToRemote are
\* the same, and no key holds the graph name twice.
C19_OneKeyPerPage ==
    \A v \in Variants :
        /\ (Keyed("backup", v) /\ Keyed("sync", v)) =>
              kKeys["backup"][v] = kKeys["sync"][v]
        /\ \A src \in {"backup", "sync"} :
              Keyed(src, v) =>
                  Cardinality(Segments(kKeys[src][v], kMetas[src].graphName)) <= 1

(***************************************************************************)
(* Properties of startup.                                                  *)
(***************************************************************************)
Failed(p) == iResult[p] \in {"false", "threw"}

\* C21: once the initialization loop of a service has ended and the service
\* has stored its first artifact, a provider whose initialize returned false
\* or threw is not in the provider set and backup was not invoked on it, and
\* every other enabled provider was initialized and, when its initialize
\* returned true, is in the provider set.
C21_FailedInitIsolated ==
    iPc = "used" =>
        \A p \in iEnabled :
            /\ Failed(p) => (p \notin iSet /\ p \notin iUsed)
            /\ (\E q \in iEnabled : Failed(q)) =>
                  /\ iResult[p] # "none"
                  /\ iResult[p] = "true" => p \in iSet

(***************************************************************************)
(* Properties of the full backup run.                                      *)
(***************************************************************************)
\* C22: in a full backup run, a page for which createPageBackup returned null
\* is counted as skipped, and the failed counter counts no such page.
C22_NullIsSkipped ==
    /\ \A i \in DOMAIN frLog :
           frLog[i].page = "null" => frLog[i].kind = "skipped"
    /\ frCounts.error <=
           Cardinality({i \in DOMAIN frLog : frLog[i].page # "null"})

(***************************************************************************)
(* Properties of processChanges.                                           *)
(***************************************************************************)
IndexIn(seq, x) == CHOOSE i \in DOMAIN seq : seq[i] = x

\* C23: within one processChanges call every document is dispatched at most
\* once, the dispatches follow the order in which the pages were added to
\* modifiedPages, and no store of an earlier page is pending when the stores
\* of the next page are invoked.
C23_OncePerDocumentInOrder ==
    /\ \A i, j \in DOMAIN pcLog : i # j => pcLog[i].doc # pcLog[j].doc
    /\ \A i, j \in DOMAIN pcLog :
           i < j => IndexIn(pcModified, pcLog[i].page)
                        < IndexIn(pcModified, pcLog[j].page)
    /\ \A i \in DOMAIN pcLog : pcLog[i].pending = 0

(***************************************************************************)
(* Properties of the asset set.                                            *)
(***************************************************************************)
\* C24: in every interleaving of two full backup runs, no run calls
\* backupAsset twice for the same asset path.
C24_AssetOncePerRun ==
    \A i, j \in DOMAIN asLog :
        (i # j /\ asLog[i].run = asLog[j].run) => asLog[i].asset # asLog[j].asset

(***************************************************************************)
(* Properties of tag filtering.                                            *)
(***************************************************************************)
\* the page carries one of the configured tags, compared without case
CarriesConfiguredTag ==
    \E i \in DOMAIN parseBackupTags(tgSettings.backupTags) :
        \E t \in tgPageTags :
            toLowerCase(t) = parseBackupTags(tgSettings.backupTags)[i]

\* C25: in mode 'tagged' with a non-empty tag list, a page that carries none
\* of the configured tags is dispatched by none of the three backup paths.
C25_UntaggedNeverDispatched ==
    (/\ tgSettings.backupMode = "tagged"
     /\ parseBackupTags(tgSettings.backupTags) # <<>>
     /\ ~CarriesConfiguredTag) =>
        \A p \in BackupPaths : tgOutcome[p] # "dispatched"

(***************************************************************************)
(* Properties of getEnabledProviders.                                      *)
(***************************************************************************)
Toggle(p) ==
    CASE p = "s3" -> geSettings.s3_enabled
      [] p = "webdav" -> geSettings.webdav_enabled
      [] p = "local" -> geSettings.local_enabled

RequiredFields(p) ==
    CASE p = "s3" -> {geSettings.s3_bucketName, geSettings.s3_accessKeyId,
                      geSettings.s3_secretAccessKey}
      [] p = "webdav" -> {geSettings.webdav_url, geSettings.webdav_username,
                          geSettings.webdav_password}
      [] p = "local" -> {geSettings.local_path}

\* C26: for every combination of toggles and empty or non-empty fields,
\* getEnabledProviders lists provider p exactly when p's toggle is on and all
\* required fields of p are non-empty, which is exactly when the toggle is
\* on and validateProviderConfig(p, settings) returns no error.
C26_EnabledIffValid ==
    \A p \in ProviderNames :
        (geEnabled # NotComputed /\ geErrors[p] # NotComputed) =>
            /\ p \in Range(geEnabled) <=>
                  (Toggle(p) /\ \A f \in RequiredFields(p) : Len(f) > 0)
            /\ p \in Range(geEnabled) <=> (Toggle(p) /\ geErrors[p] = <<>>)

\* both functions were applied to settings in which s3 is enabled and
\* complete, the WebDAV toggle is on with an empty password, and the local
\* path is set with the toggle off
C26_Witness ==
    /\ geEnabled = <<"s3">>
    /\ \A p \in ProviderNames : geErrors[p] # NotComputed
    /\ geSettings.webdav_enabled /\ geSettings.webdav_password = <<>>
    /\ geSettings.webdav_url # <<>>
    /\ ~geSettings.local_enabled /\ geSettings.local_path # <<>>

(***************************************************************************)
(* Properties of the isChanged-flag coalescer.                             *)
(***************************************************************************)
\* C27: in the isChanged-flag coalescer, at most one processChanges call
\* is awaiting the backup service at any time: a timer fire or a shutdown
\* flush during an awaiting call starts no second, overlapping call.
C27_NoOverlappingCall == Cardinality(ssAwaiting) <= 1

(***************************************************************************)
(* Snapshots handed to the processing callback.                            *)
(***************************************************************************)
\* C28: no change event is in the arguments of two invocations of the
\* processing callback: what a pass consumed or the shutdown flush drained
\* is in no later snapshot.
C28_EventInOneSnapshot ==
    \A i, j \in DOMAIN calls :
        i < j => Range(calls[i].args) \cap Range(calls[j].args) = {}

(***************************************************************************)
(* The coalescer after beforeunload.                                       *)
(***************************************************************************)
NoEventSinceUnload == \A k \in DOMAIN evLog : evLog[k].unload = "idle"

\* C29: once the beforeunload handler has run and as long as no change
\* event has arrived since, no step leaves a debounce timer armed and no
\* step starts a pass, also when a pass that was in flight at shutdown
\* completes with a non-empty buffer.
C29_QuietAfterShutdown ==
    [][(unloadPc # "idle" /\ NoEventSinceUnload')
          => /\ timer' = NoTimer
             /\ \A h \in DOMAIN pendingTimers' : pendingTimers'[h] = NotArmed
             /\ Len(calls') > Len(calls) => calls'[Len(calls')].by # "pass"]_vars

(***************************************************************************)
(* Properties of overlapping settings changes.                             *)
(***************************************************************************)
\* C30: when no updateSettings call is awaiting any more, the provider
\* maps of both services hold only providers that are enabled under the
\* settings applied last.
C30_OnlyEnabledOnceSettled ==
    (ovBackupCalls = {} /\ ovSyncCalls = {}) =>
        (ovBackup \subseteq ovEnabled /\ ovSync \subseteq ovEnabled)

(***************************************************************************)
(* Providers visited by syncPage.                                          *)
(***************************************************************************)
\* C31: when syncPage has run for a page that exists and has a file path,
\* every provider of the service's map (enabled and initialized: s3, webdav
\* or local) has been compared with the remote; none was skipped.
C31_EveryProviderReconciled ==
    (syPc = "done" /\ syPage /\ syFilePath # <<>>) =>
        \A p \in syProviders : syDecision[p] # "none"

(***************************************************************************)
(* Exact and suffix matches in getRemoteMetadataFromCache.                 *)
(***************************************************************************)
ExactMatches(backups, filePath) ==
    {i \in DOMAIN backups : backups[i].filePath = filePath}

WellFormed(backups) ==
    \A i \in DOMAIN backups : ~ParseDate(backups[i].timestamp).nan

\* C32: when the consulted list holds an entry whose path equals the
\* document's path, the entry the decision uses is the latest of the
\* entries with equal path, whatever entries match by suffix only.
C32_ExactPreferred ==
    LET backups == Consulted(dfCache, dfRemote)
        exact == ExactMatches(backups, dfPath)
    IN  (dfPc \in {"looked", "done"} /\ dfMatched # 0 /\ exact # {}
            /\ WellFormed(backups)) =>
            /\ dfMatched \in exact
            /\ \A j \in exact :
                  backups[j].timestamp.ms <= backups[dfMatched].timestamp.ms

FreshList == rmListed.done /\ rmListed.after = Len(rmStores)

\* C34: once backup() has returned true for an artifact with a path, a
\* listing taken afterwards holds an entry whose filePath matches the
\* artifact's path, so the comparison does not answer remote-missing.
C34_StoredIsListed ==
    FreshList =>
        \A i \in DOMAIN rmStores :
            (rmStores[i].returned /\ rmStores[i].metadata.filePath # <<>>) =>
                Matching(AsBackups(rmListed.backups),
                         rmStores[i].metadata.filePath) # {}

\* the store that put the object a listed entry was made of
StoreOf(entry) ==
    {i \in DOMAIN rmStores :
        /\ rmStores[i].returned
        /\ StorageKey(rmVariant, rmStores[i].key) = entry.at
        /\ PayloadAt(rmObjects, entry.at) =
              [doc |-> rmStores[i].doc, stamp |-> rmStores[i].metadata.timestamp]}

\* C35: restoreBackup with the timestamp list() reports for a stored
\* artifact resolves to the key the artifact was stored under and returns
\* its payload, whether or not the artifact's path starts with the graph
\* name.
C35_StoreRestoreRoundTrip ==
    (FreshList /\ rmRestored # NotRestored
        /\ rmRestored.after = Len(rmStores)
        /\ rmRestored.asked \in Range(rmListed.backups)) =>
        \A i \in StoreOf(rmRestored.asked) :
            /\ rmRestored.key = rmStores[i].key
            /\ rmRestored.payload = PayloadAt(rmObjects, rmRestored.asked.at)

(***************************************************************************)
(* Reconciliation run twice.                                               *)
(***************************************************************************)
SecondPassDone == fxPass = MaxPasses /\ fxPc = "idle"

\* C36: after a sync pass in which every store, fetch and update succeeded and
\* with no local edit since, a second sync pass against a fresh list decides
\* "same" for every (document, provider) pair and pushes and pulls nothing
C36_SecondPassIsSame ==
    SecondPassDone =>
        \A i \in DOMAIN fxLog :
            fxLog[i].pass = MaxPasses =>
                fxLog[i].decision = "same" /\ fxLog[i].act = "none"

(***************************************************************************)
(* The counters of a full backup run.                                      *)
(***************************************************************************)
Counted == frCounts.success + frCounts.error + frCounts.skipped

PageLoopReached == frN > 0 /\ enabledNames # {} /\ frPc \in {"page", "store", "done"}

\* C37: in a full backup run that reaches the page loop every page the
\* enumeration returned is counted in exactly one of succeeded, failed and
\* skipped: the three counters add up to the pages handled so far, and to
\* the number of enumerated pages when the final summary is shown
C37_CountersSum ==
    PageLoopReached =>
        /\ Counted = Len(frLog)
        /\ Counted = frIdx - 1
        /\ frPc = "done" => (Counted = frN /\ frSummary # "none")

C37_Witness ==
    /\ PageLoopReached
    /\ frPc = "done"
    /\ frN >= 2
    /\ frCounts.skipped >= 1
    /\ frCounts.success + frCounts.error >= 1

(***************************************************************************)
(* Failures within one coalescing pass.                                    *)
(***************************************************************************)
BuiltPages == [i \in DOMAIN pcBuilt |-> pcBuilt[i].page]

AwaitedPage == IF bpPc = "awaitBuild" THEN <<pcCur>> ELSE <<>>

PageFailed(b) ==
    \/ b.outcome \in {"null", "throws"}
    \/ /\ b.outcome = "artifact"
       /\ b.invoked # {}
       /\ \A p \in b.invoked : b.results[p] \in {"false", "threw"}

\* C38: in a coalescing pass a page whose build throws or returns nothing, or
\* whose stores all fail, does not end the pass: the pages built so far, the
\* page being built and the pages still to come are always the modified
\* pages, the pass ends only when every one of them was built, and every
\* artifact was handed to every provider
C38_FailureDoesNotAbort ==
    /\ pcPc \in {"backup", "done"} =>
          /\ BuiltPages \o AwaitedPage \o pcQueue = pcModified
          /\ \A i \in DOMAIN pcBuilt :
                pcBuilt[i].outcome = "artifact" => pcBuilt[i].invoked = providers
    /\ pcPc = "done" => BuiltPages = pcModified

C38_Witness ==
    /\ pcPc = "done"
    /\ Len(pcBuilt) >= 2
    /\ PageFailed(pcBuilt[1])
    /\ pcBuilt[2].outcome = "artifact"
    /\ pcBuilt[2].invoked # {}

====
